---- MODULE Spec2Model ----
(***************************************************************************)
(* Rate-governed replication engine of the Kaiten migration tools:         *)
(* the request governor (_rate_limit), the transport client (_request),    *)
(* the paginator (get_paginated) and the migration pipeline (migrate_all)  *)
(* of src/migration/kaiten_migration.py, a run's two clients and a second  *)
(* run, and the dry-run switch and the configuration engine                *)
(* (KaitenDSLEngine.execute) of src/migration/kaiten_dsl_engine.py, and    *)
(* the crawl loop of src/scrape_docs.py and src/scrape_api.py.             *)
(*                                                                         *)
(* Time is counted in ticks of 50 ms, the largest unit in which the        *)
(* code's three durations (1.0 s window, 0.05 s margin, 2 s back-off) are  *)
(* whole numbers.  The code only ever uses differences now - t, so the     *)
(* timestamps of a client are stored relative to the client's latest       *)
(* clock reading (0 = that reading, negative = before it).                 *)
(***************************************************************************)
EXTENDS Integers, Sequences, FiniteSets, TLC

\* ------------------------------------------------------------- constants
\* len(self.request_times) >= 5
MaxRequests == 5
\* now - t < 1.0, in ticks of 50 ms
Window == 20
\* + 0.05 "for reliability", in ticks
Margin == 1
\* time.sleep(2) after a 429, in ticks
Backoff == 40
\* get_paginated(..., limit: int = 100)
DefaultLimit == 100

\* --------------------------------------------------------------- bounds
\* longest gap, in ticks, between two calls that is enumerated besides the
\* gaps around the window length
MaxGap == 1
\* time.sleep may return late: extra ticks slept
MaxOversleep == 1
\* request_count is not told apart above this value
CountCap == 8
\* Spec: records in one listing of the source (properties, tags, spaces,
\* cards; boards of a space; comments, checklists, children of a card), and
\* target calls that do not yield an id in one run
MaxList == 2
MaxSub == 1
MaxSource == 6
MaxFaults == 1
\* SpecRerun: a second run is started after a first run without a failed
\* call that has left this many of the MaxSource records
MaxRerun == 2
\* SpecPaginator: records the source holds, and page sizes asked for
MaxRecords == 7
MaxPage == 3
\* SpecTransport: nested _request calls the interpreter's stack has room for
\* (the recursion limit, sys.getrecursionlimit(), is 1000 frames unless
\* changed, and the code does not change it)
MaxDepth == 3
\* SpecClients: requests made through each of a run's two clients
MaxClientCalls == 3
\* SpecDsl: calls of the DSL engine's KaitenAPI.request, and 429 responses
\* one of them gets
MaxDslCalls == 3
MaxDslRetries == 1
\* SpecEngine: keys of a configuration besides 'version' and 'kaiten', items
\* of one list of it, items of all its lists together, and calls of the API
\* that yield no id
MaxKeys == 2
MaxItems == 2
MaxEntities == 4
MaxEngFaults == 1
\* SpecCrawler: links of one page
MaxLinks == 2
\* SpecThreads: callers sharing one client, and calls each of them makes
NumThreads == 2
MaxCallsPerThread == 4

VARIABLES
    request_times,   \* KaitenAPI.request_times, relative to the latest reading
    request_count,   \* KaitenAPI.request_count (bounded by the guards)
    admitted,        \* ghost: the timestamps appended (SpecGovernor: the recent ones)
    last_sleep,      \* ghost: ticks requested from time.sleep by the last call
    \* --- SpecThreads: concurrent callers of _rate_limit on one client
    clock,           \* time.time(), ticks since the start (timestamps are absolute here)
    pc,              \* per caller: the line of _rate_limit it is about to run
    now,             \* per caller: local `now`
    filtered,        \* per caller: the list built by the comprehension, not yet stored
    wake,            \* per caller: when its time.sleep may return
    count_read,      \* per caller: request_count as read by `+= 1`
    calls,           \* per caller: calls of _rate_limit begun
    \* --- SpecTransport: one client's _request calls, one at a time
    rq_pc,           \* where the current _request call stands
    rq_req,          \* its arguments: method, endpoint, kwargs
    rq_depth,        \* its recursion depth (1 + retries so far)
    rq_result,       \* the value returned to the caller
    idle_for,        \* ticks since the client's latest clock reading
    sent,            \* ghost: the requests handed to requests.request, this call
    responses,       \* ghost: what came back for each of them, this call
    events,          \* ghost: what the call did so far, in order
    attempts,        \* ghost: HTTP attempts of the client since construction
    \* --- SpecPaginator: one get_paginated call
    pg_pc,           \* "idle", "loop" (at `while True`) or "done" (returned)
    limit,           \* its parameter `limit`
    offset,          \* its local `offset`
    all_data,        \* its local `all_data`, returned at the end
    src_size,        \* ghost: how many records the source holds
    page_requests,   \* ghost: the limit/offset of each page request issued
    faithful,        \* ghost: every page so far was the one asked for
    received,        \* ghost: what self.get returned for each page request
    \* --- Spec: one run of KaitenMigration.migrate_all
    mg_pc,           \* the statement of the pipeline about to run
    id_map,          \* self.id_map: kind -> (source id -> target id)
    cards_order,     \* the keys of id_map['cards'] in the dict's (insertion) order
    stats,           \* self.stats: kind -> total / migrated / failed
    frame,           \* the loops' locals: records left, current records, new ids
    raised,          \* an exception reached the `except` of migrate_all
    target_posts,    \* ghost: creation requests sent to the target so far
    last_request,    \* ghost: the latest of them
    kinds_sent,      \* ghost: the endpoints they went to
    outcome,         \* ghost: how the latest record ended
    pending,         \* ghost: records listed by a loop and not yet visited
    fetched,         \* ghost: records the source returned so far (bounded)
    active_spaces,   \* ghost: spaces visited that were not archived
    faults,          \* ghost: target calls that yielded no id (bounded)
    \* --- SpecRerun: main() run a second time against the same target
    first_run,       \* ghost: whether a run came before, and the id_map it ended with
    \* --- SpecClients: the two clients of a run, self.source and self.target
    clients,         \* per client: its request_times and request_count
    \* --- SpecDsl: the KaitenAPI of kaiten_dsl_engine.py
    dsl_pc,          \* "main" (before the client is constructed) or "ready"
    dsl_command,     \* sys.argv[1]
    dsl_dry_run,     \* KaitenAPI.dry_run
    dsl_times,       \* KaitenAPI.request_times, relative to the latest reading
    dsl_http,        \* ghost: calls of requests.request so far
    dsl_calls,       \* ghost: calls of KaitenAPI.request so far
    dsl_result,      \* what the latest call returned
    \* --- SpecEngine: main() and KaitenDSLEngine.execute of kaiten_dsl_engine.py
    eng_pc,          \* "main", "steps" (in the loop of execute) or "returned"
    eng_config,      \* the configuration: version, kaiten, the other keys in file order
    eng_dry_run,     \* KaitenAPI.dry_run
    eng_step,        \* how many entries of `steps` the loop of execute has taken
    eng_stack,       \* the `for` loops under way, innermost first
    created_ids,     \* self.context.created_ids: kind -> (key -> id)
    eng_sent,        \* ghost: the endpoints of the calls of api.post, in order
    eng_last,        \* ghost: the latest item a loop took, and how it ended
    eng_owners,      \* ghost: which names each key of created_ids was built from
    eng_listed,      \* ghost: items the lists entered so far hold (bounded)
    eng_faults,      \* ghost: calls of api.post that yielded no id (bounded)
    eng_result,      \* what execute (or validate_config, for `validate`) returned
    \* --- SpecCrawler: crawl() of scrape_docs.py or scrape_api.py
    crw_pc,          \* "main", "loop" (at `while to_visit`), "done" or "crashed"
    crawler,         \* which of the two scripts runs: "docs" or "api"
    to_visit,        \* its list to_visit
    visited,         \* its set visited
    crw_fetches      \* ghost: the URLs handed to fetch / page.goto, in order

govVars == <<request_times, request_count, admitted, last_sleep>>
thrVars == <<clock, pc, now, filtered, wake, count_read, calls>>
reqVars == <<rq_pc, rq_req, rq_depth, rq_result, idle_for, sent, responses, events,
             attempts>>

pagVars == <<pg_pc, limit, offset, all_data, src_size, page_requests, faithful,
             received>>

migVars == <<mg_pc, id_map, cards_order, stats, frame, raised, target_posts,
             last_request, kinds_sent, outcome, pending, fetched, active_spaces,
             faults, first_run>>

cliVars == <<clients>>
dslVars == <<dsl_pc, dsl_command, dsl_dry_run, dsl_times, dsl_http, dsl_calls, dsl_result>>

engVars == <<eng_pc, eng_config, eng_dry_run, eng_step, eng_stack, created_ids, eng_sent,
             eng_last, eng_owners, eng_listed, eng_faults, eng_result>>

crwVars == <<crw_pc, crawler, to_visit, visited, crw_fetches>>

vars == <<govVars, thrVars, reqVars, pagVars, migVars, cliVars, dslVars, engVars, crwVars>>

\* what the actions of one component leave alone
outsideGovernor == <<thrVars, reqVars, pagVars, migVars, cliVars, dslVars, engVars, crwVars>>
outsideThreads == <<reqVars, pagVars, migVars, cliVars, dslVars, engVars, crwVars>>
outsideTransport == <<thrVars, pagVars, migVars, cliVars, dslVars, engVars, crwVars>>
outsidePaginator == <<govVars, thrVars, reqVars, migVars, cliVars, dslVars, engVars, crwVars>>
outsidePipeline ==
    <<govVars, thrVars, reqVars, pagVars, cliVars, dslVars, engVars, crwVars, first_run>>
outsideDsl == <<govVars, thrVars, reqVars, pagVars, migVars, cliVars, engVars, crwVars>>
outsideClients == <<govVars, thrVars, reqVars, pagVars, migVars, dslVars, engVars, crwVars>>
outsideEngine == <<govVars, thrVars, reqVars, pagVars, migVars, cliVars, dslVars, crwVars>>
outsideCrawler == <<govVars, thrVars, reqVars, pagVars, migVars, cliVars, dslVars, engVars>>

\* ------------------------------------------------------ KaitenAPI._rate_limit
Min(a, b) == IF a < b THEN a ELSE b
Max(a, b) == IF a > b THEN a ELSE b

\* how far back the ghost history of SpecGovernor reaches: a window holding
\* a given newest admission reaches back less than Window ticks from it
HistSpan == Window + Margin

\* [t for t in self.request_times if now - t < 1.0]
\* (a comparison that keeps a timestamp exactly one window old)
PruneInclusive(times, at) == SelectSeq(times, LAMBDA t : at - t <= Window)
Prune(times, at) == SelectSeq(times, LAMBDA t : at - t < Window)

\* if len(self.request_times) >= 5
\* (a cap checked one too late)
AtCapOffByOne(times) == Len(times) > MaxRequests
AtCap(times) == Len(times) >= MaxRequests

\* sleep_time = 1.0 - (now - self.request_times[0]) + 0.05
\* (a sleep without the margin)
SleepTimeNoMargin(times, at) == Window - (at - times[1])
SleepTime(times, at) == Window - (at - times[1]) + Margin

\* The body of _rate_limit on a window `times`, entered `gap` ticks after the
\* latest clock reading, with time.sleep returning `over` ticks late.
\* Yields the new window and the timestamp appended, both still relative
\* to the reading before the call, and the sleep requested (0 = none).
RateLimitBody(times, gap, over) ==
    LET now1  == gap
        kept1 == Prune(times, now1)
        sl    == IF AtCap(kept1) THEN SleepTime(kept1, now1) ELSE 0
        slept == AtCap(kept1) /\ sl > 0
        now2  == IF slept THEN now1 + sl + over ELSE now1
        kept2 == IF slept THEN Prune(kept1, now2) ELSE kept1
    IN  [times |-> Append(kept2, now2), at |-> now2,
         sleep |-> IF slept THEN sl ELSE 0]

\* Re-express timestamps relative to a new latest reading `at`; a timestamp
\* more than `span` ticks old is as good as any other that old.
Rebase(times, at, span) == [i \in DOMAIN times |-> Max(times[i] - at, 0 - span)]

\* the ghost history keeps what is younger than HistSpan
Remember(hist, at) ==
    SelectSeq(Rebase(Append(hist, at), at, HistSpan), LAMBDA t : t > 0 - HistSpan)

\* gaps between calls: short ones, and the ones around the window length
Gaps == (0 .. MaxGap) \cup {Window - Margin, Window, Window + Margin}

RateLimit(gap, over) ==
    LET r == RateLimitBody(request_times, gap, over)
    IN  /\ request_times' = Rebase(r.times, r.at, Window)
        /\ request_count' = Min(request_count + 1, CountCap)
        /\ admitted' = Remember(admitted, r.at)
        /\ last_sleep' = r.sleep

Admit ==
    /\ \E gap \in Gaps, over \in 0 .. MaxOversleep : RateLimit(gap, over)
    /\ UNCHANGED outsideGovernor

GovInit ==
    /\ request_times = << >>
    /\ request_count = 0
    /\ admitted = << >>
    /\ last_sleep = 0

NextGovernor == Admit

\* ------------------------------------- the two clients of a KaitenMigration
\* KaitenMigration.__init__, lines 155-156: self.source and self.target, two
\* KaitenAPI objects.  KaitenAPI.__init__, lines 40-41, gives each object its
\* own request_count and its own request_times list.
Clients == {"source", "target"}
NewClient == [request_times |-> << >>, request_count |-> 0]

\* the clients whose window and count a call of _rate_limit through `client`
\* reads and writes: self
\* (one governor for the whole process)
GovernedAll(client) == Clients
Governed(client) == {client}

CliInit == clients = [c \in Clients |-> NewClient]

\* self.source.get / self.target.post ...: _request on one client, of which
\* _rate_limit is the part that touches the client's state
ClientRequest(client) ==
    /\ clients[client].request_count < MaxClientCalls
    /\ \E gap \in Gaps, over \in 0 .. MaxOversleep :
           LET r == RateLimitBody(clients[client].request_times, gap, over)
               after == [request_times |-> Rebase(r.times, r.at, Window),
                         request_count |-> clients[client].request_count + 1]
           IN  clients' = [c \in Clients |->
                               IF c \in Governed(client) THEN after ELSE clients[c]]
    /\ UNCHANGED outsideClients

NextClients == \E client \in Clients : ClientRequest(client)

\* ------------------------- _rate_limit, line by line, under several callers
\* The code takes no lock: each caller runs the lines below in order, and any
\* other caller's line may run between two of them.
Threads == 1 .. NumThreads

ThrInit ==
    /\ clock = 0
    /\ pc = [th \in Threads |-> "idle"]
    /\ now = [th \in Threads |-> 0]
    /\ filtered = [th \in Threads |-> << >>]
    /\ wake = [th \in Threads |-> 0]
    /\ count_read = [th \in Threads |-> 0]
    /\ calls = [th \in Threads |-> 0]

\* now = time.time()                                  (first line of a call)
ReadClock(th) ==
    /\ pc[th] = "idle"
    /\ calls[th] < MaxCallsPerThread
    /\ calls' = [calls EXCEPT ![th] = @ + 1]
    /\ now' = [now EXCEPT ![th] = clock]
    /\ pc' = [pc EXCEPT ![th] = "prune"]
    /\ UNCHANGED <<govVars, outsideThreads, clock, filtered, wake, count_read>>

\* [t for t in self.request_times if now - t < 1.0]   (builds a new list)
PruneRead(th) ==
    /\ pc[th] \in {"prune", "prune2"}
    /\ filtered' = [filtered EXCEPT ![th] = Prune(request_times, now[th])]
    /\ pc' = [pc EXCEPT ![th] = IF pc[th] = "prune" THEN "store" ELSE "store2"]
    /\ UNCHANGED <<govVars, outsideThreads, clock, now, wake, count_read, calls>>

\* self.request_times = <that list>
PruneStore(th) ==
    /\ pc[th] \in {"store", "store2"}
    /\ request_times' = filtered[th]
    /\ pc' = [pc EXCEPT ![th] = IF pc[th] = "store" THEN "check" ELSE "append"]
    /\ UNCHANGED <<request_count, admitted, last_sleep, outsideThreads, clock, now, filtered,
                   wake, count_read, calls>>

\* if len(self.request_times) >= 5:
CheckCap(th) ==
    /\ pc[th] = "check"
    /\ pc' = [pc EXCEPT ![th] = IF AtCap(request_times) THEN "compute" ELSE "append"]
    /\ UNCHANGED <<govVars, outsideThreads, clock, now, filtered, wake, count_read, calls>>

\* sleep_time = 1.0 - (now - self.request_times[0]) + 0.05; if sleep_time > 0:
\* time.sleep(sleep_time) begins
ComputeSleep(th) ==
    /\ pc[th] = "compute"
    /\ request_times # << >>
    /\ LET sl == SleepTime(request_times, now[th])
       IN  IF sl > 0
           THEN /\ wake' = [wake EXCEPT ![th] = clock + sl]
                /\ pc' = [pc EXCEPT ![th] = "sleep"]
           ELSE /\ pc' = [pc EXCEPT ![th] = "append"]
                /\ UNCHANGED wake
    /\ UNCHANGED <<govVars, outsideThreads, clock, now, filtered, count_read, calls>>

\* self.request_times[0] on a list another caller has emptied: IndexError,
\* which nothing in _rate_limit catches; the call ends without an admission
IndexError(th) ==
    /\ pc[th] = "compute"
    /\ request_times = << >>
    /\ pc' = [pc EXCEPT ![th] = "idle"]
    /\ UNCHANGED <<govVars, outsideThreads, clock, now, filtered, wake, count_read, calls>>

\* time.sleep returns, not before the time asked for; now = time.time()
WakeUp(th) ==
    /\ pc[th] = "sleep"
    /\ clock >= wake[th]
    /\ now' = [now EXCEPT ![th] = clock]
    /\ pc' = [pc EXCEPT ![th] = "prune2"]
    /\ UNCHANGED <<govVars, outsideThreads, clock, filtered, wake, count_read, calls>>

\* self.request_times.append(now)
AppendNow(th) ==
    /\ pc[th] = "append"
    /\ request_times' = Append(request_times, now[th])
    /\ admitted' = Append(admitted, now[th])
    /\ pc' = [pc EXCEPT ![th] = "count"]
    /\ UNCHANGED <<request_count, last_sleep, outsideThreads, clock, now, filtered, wake,
                   count_read, calls>>

\* self.request_count += 1: the read ...
CountRead(th) ==
    /\ pc[th] = "count"
    /\ count_read' = [count_read EXCEPT ![th] = request_count]
    /\ pc' = [pc EXCEPT ![th] = "count_store"]
    /\ UNCHANGED <<govVars, outsideThreads, clock, now, filtered, wake, calls>>

\* ... and the write
CountStore(th) ==
    /\ pc[th] = "count_store"
    /\ request_count' = Min(count_read[th] + 1, CountCap)
    /\ pc' = [pc EXCEPT ![th] = "idle"]
    /\ UNCHANGED <<request_times, admitted, last_sleep, outsideThreads, clock, now, filtered,
                   wake, count_read, calls>>

\* Time passes. The callers' own lines take no time here (they run within
\* one tick); the clock moves when a caller sleeps, to the earliest moment a
\* sleeping caller may wake.
Sleeping == {th \in Threads : pc[th] = "sleep" /\ wake[th] > clock}

Tick ==
    /\ Sleeping # {}
    /\ clock' = CHOOSE w \in {wake[th] : th \in Sleeping} :
                    \A th \in Sleeping : w <= wake[th]
    /\ UNCHANGED <<govVars, outsideThreads, pc, now, filtered, wake, count_read, calls>>

NextThreads ==
    \/ \E th \in Threads :
          \/ ReadClock(th) \/ PruneRead(th) \/ PruneStore(th) \/ CheckCap(th)
          \/ ComputeSleep(th) \/ IndexError(th) \/ WakeUp(th) \/ AppendNow(th)
          \/ CountRead(th) \/ CountStore(th)
    \/ Tick

\* ------------------------------------------------------- KaitenAPI._request
\* JSON values and Python's None, tagged by type: a dict carries its fields,
\* a list its items.
None == [type |-> "None"]
Dict(fields) == [type |-> "dict", fields |-> fields]
List(items) == [type |-> "list", items |-> items]
EmptyDict == Dict(<< >>)

\* `not v` is false
Truthy(v) ==
    CASE v.type = "None" -> FALSE
      [] v.type = "dict" -> DOMAIN v.fields # {}
      [] v.type = "list" -> v.items # << >>

\* 'k' in v, for a dict
HasKey(v, k) == v.type = "dict" /\ k \in DOMAIN v.fields

\* what callers pass: method, endpoint and the json / params keyword
Requests ==
    { [method |-> "GET", endpoint |-> "/cards", kwargs |-> "params"],
      [method |-> "POST", endpoint |-> "/cards", kwargs |-> "json"] }
NoRequest == [method |-> "", endpoint |-> "", kwargs |-> ""]

\* what requests.request gives back: a response with a status and a text, or
\* an exception (timeout, DNS, connection refused) marked by status 0
\* (a success carries any of the texts, a refusal an error page)
Texts == {"", "{\"id\": 1}", "{}", "<html>"}
Refusals == {429, 404, 500}
NetworkError == [status |-> 0, text |-> ""]
NoContent == [status |-> 204, text |-> ""]
\* requests.request called with no room left on the interpreter's stack: the
\* RecursionError raised inside it, an Exception like the network's
RecursionError == [status |-> 0, text |-> "RecursionError"]
Outcomes ==
    [status : {200}, text : Texts] \cup {NoContent}
        \cup [status : Refusals, text : {"<html>"}] \cup {NetworkError}

\* response.json()
IsJson(text) == text \in {"{\"id\": 1}", "{}"}
ParseJson(text) ==
    IF text = "{}" THEN EmptyDict ELSE Dict([k \in {"id"} |-> 1])

\* response.raise_for_status() raises HTTPError
IsHttpError(status) == 400 <= status /\ status < 600

\* if response.status_code == 429
\* (a retry on whatever is not a 200)
IsNot200(o) == o.status # 200
Is429(o) == o.status = 429

\* lines 79-93: the value _request returns for an outcome that is not a 429
\* (without the test of lines 82-83: json() is called on the empty text)
ResultOfAlwaysParsed(o) ==
    IF o \in {NetworkError, RecursionError} THEN None
    ELSE IF IsHttpError(o.status) THEN None
    ELSE IF IsJson(o.text) THEN ParseJson(o.text)
    ELSE None
ResultOf(o) ==
    IF o \in {NetworkError, RecursionError} THEN None    \* except Exception
    ELSE IF IsHttpError(o.status) THEN None    \* except HTTPError
    ELSE IF o.text = "" THEN EmptyDict         \* if not response.text: return {}
    ELSE IF IsJson(o.text) THEN ParseJson(o.text)
    ELSE None                                  \* json() raises ValueError

Event(ev, ticks) == [ev |-> ev, ticks |-> ticks]

ReqInit ==
    /\ rq_pc = "idle"
    /\ rq_req = NoRequest
    /\ rq_depth = 0
    /\ rq_result = None
    /\ idle_for = 0
    /\ sent = << >>
    /\ responses = << >>
    /\ events = << >>
    /\ attempts = 0

\* a caller invokes get / post / patch / delete, right away or a window later
Call(req) ==
    /\ rq_pc \in {"idle", "returned"}
    /\ request_count < CountCap
    /\ rq_pc' = "admit"
    /\ rq_req' = req
    /\ rq_depth' = 1
    /\ rq_result' = None
    /\ idle_for' \in {idle_for, Max(idle_for, Window)}
    /\ sent' = << >>
    /\ responses' = << >>
    /\ events' = << >>
    /\ UNCHANGED <<govVars, attempts, outsideTransport>>

\* self._rate_limit()
RequestAdmit ==
    /\ rq_pc = "admit"
    /\ \E over \in 0 .. MaxOversleep : RateLimit(idle_for, over)
    /\ rq_pc' = "send"
    /\ idle_for' = 0
    /\ events' = Append(events, Event("admit", last_sleep'))
    /\ UNCHANGED <<rq_req, rq_depth, rq_result, sent, responses, attempts,
                   outsideTransport>>

\* where the recursive call of line 77 starts: at the top of _request
\* (a retry that resumes at the HTTP call)
AfterBackoffNoAdmit == "send"
AfterBackoff == "admit"

\* requests.request(method, url, headers=self.headers, **kwargs) and the
\* handling of what it gives back
\* (a retry without the wait)
On429NoWait(o) ==
    /\ request_count < CountCap
    /\ rq_pc' = AfterBackoff
    /\ rq_depth' = rq_depth + 1
    /\ idle_for' = 0
    /\ events' = events \o <<Event("send", 0), Event("response", 0)>>
    /\ UNCHANGED rq_result
\* time.sleep(2); return self._request(method, endpoint, **kwargs)
On429(o) ==
    /\ request_count < CountCap
    /\ rq_pc' = AfterBackoff
    /\ rq_depth' = rq_depth + 1
    /\ idle_for' = Backoff
    /\ events' = events \o <<Event("send", 0), Event("response", 0),
                             Event("sleep", Backoff)>>
    /\ UNCHANGED rq_result

Send(o) ==
    /\ rq_pc = "send"
    /\ o = RecursionError <=> rq_depth = MaxDepth
    /\ sent' = Append(sent, rq_req)
    /\ responses' = Append(responses, o)
    /\ attempts' = attempts + 1
    /\ IF Is429(o)
       THEN On429(o)
       ELSE /\ rq_pc' = "returned"
            /\ rq_result' = ResultOf(o)
            /\ events' = events \o <<Event("send", 0), Event("response", 0),
                                     Event("return", 0)>>
            /\ UNCHANGED <<rq_depth, idle_for>>
    /\ UNCHANGED <<govVars, rq_req, outsideTransport>>

NextTransport ==
    \/ \E req \in Requests : Call(req)
    \/ RequestAdmit
    \/ \E o \in Outcomes \cup {RecursionError} : Send(o)

\* ------------------------------------ kaiten_dsl_engine.py: KaitenAPI.request
\* main(): the command line's first argument
Commands == {"apply", "dry-run", "validate"}
\* dry_run = command in ['dry-run', 'validate']
DryRun(command) == command \in {"dry-run", "validate"}

\* return {'id': 999, 'title': 'mock', 'name': 'mock'}
Mock == Dict([id |-> 999, title |-> "mock", name |-> "mock"])
\* an exception that leaves request()
Raised == [type |-> "raise"]

\* whether a call of request() gets to self._rate_limit(): the dry-run test
\* returns before it
\* (the governor consulted before the test)
DslAdmittedAlways(dry_run) == TRUE
DslAdmitted(dry_run) == ~ dry_run

\* the window after the admission of a call made `gap` ticks after the latest
\* reading and the admissions of its k retries, each 2 s after a 429
RECURSIVE DslWindow(_, _, _, _)
DslWindow(times, gap, over, k) ==
    LET r == RateLimitBody(times, gap, over)
        first == Rebase(r.times, r.at, Window)
    IN  IF k = 0 THEN first ELSE DslWindow(first, Backoff, over, k - 1)

\* what request() returns for a response that is not a 429: lines 92-97.
\* json() on a body that is not JSON raises an error that is a
\* RequestException (then None) or is not (then it leaves request()),
\* depending on the version of the requests library.
DslResults(o) ==
    IF o = NetworkError THEN {None}
    ELSE IF IsHttpError(o.status) THEN {None}
    ELSE IF o.text = "" THEN {EmptyDict}
    ELSE IF IsJson(o.text) THEN {ParseJson(o.text)}
    ELSE {None, Raised}

DslInit ==
    /\ dsl_pc = "main"
    /\ dsl_command = ""
    /\ dsl_dry_run = FALSE
    /\ dsl_times = << >>
    /\ dsl_http = 0
    /\ dsl_calls = 0
    /\ dsl_result = None

\* main(), lines 544-547: api = KaitenAPI(domain, token, dry_run=dry_run)
DslConstruct(command) ==
    /\ dsl_pc = "main"
    /\ dsl_pc' = "ready"
    /\ dsl_command' = command
    /\ dsl_dry_run' = DryRun(command)
    /\ dsl_times' = << >>
    /\ UNCHANGED <<dsl_http, dsl_calls, dsl_result, outsideDsl>>

\* KaitenAPI.request(method, endpoint, **kwargs), lines 74-97, whole: in
\* dry-run the mock; otherwise the admission, the HTTP call, and after each
\* 429 the wait and the call again
DslRequest(method, endpoint) ==
    /\ dsl_pc = "ready"
    /\ dsl_calls < MaxDslCalls
    /\ dsl_calls' = dsl_calls + 1
    /\ IF dsl_dry_run
       THEN /\ dsl_result' = Mock
            /\ dsl_http' = dsl_http
            /\ \E gap \in Gaps, over \in 0 .. MaxOversleep :
                   dsl_times' = IF DslAdmitted(dsl_dry_run)
                                THEN DslWindow(dsl_times, gap, over, 0)
                                ELSE dsl_times
       ELSE \E gap \in Gaps, over \in 0 .. MaxOversleep, k \in 0 .. MaxDslRetries,
               o \in Outcomes \ {x \in Outcomes : Is429(x)} :
               /\ dsl_times' = DslWindow(dsl_times, gap, over, k)
               /\ dsl_http' = dsl_http + k + 1
               /\ dsl_result' \in DslResults(o)
    /\ UNCHANGED <<dsl_pc, dsl_command, dsl_dry_run, outsideDsl>>

DslMethods == {"GET", "POST", "PATCH", "DELETE"}
DslEndpoints == {"/spaces", "/cards"}

NextDsl ==
    \/ \E command \in Commands : DslConstruct(command)
    \/ \E method \in DslMethods, endpoint \in DslEndpoints : DslRequest(method, endpoint)

\* --------------------------------------------------- KaitenAPI.get_paginated
\* The source's records, in its order: record i is {"id": i}.
Rec(i) == Dict([k \in {"id"} |-> i])
SourceRecords(n) == [i \in 1 .. n |-> Rec(i)]

\* the page a source of n records owes to limit/offset
PageOf(n, lim, off) == SubSeq(SourceRecords(n), off + 1, Min(off + lim, n))

\* what self.get may return for a page request: the page as a bare array or
\* under 'data', a page one record short or one too long, a single object,
\* an empty object, or None when the request failed
Wrapped(items) == Dict([k \in {"data"} |-> List(items)])
ErrorObject == Dict([k \in {"error"} |-> 1])
OtherPages(n, lim, off) ==
    { List(SubSeq(SourceRecords(n), off + 1, Min(off + len, n))) :
          len \in {lim - 1, lim + 1} }
PageResponses(n, lim, off) ==
    {List(PageOf(n, lim, off)), Wrapped(PageOf(n, lim, off))}
        \cup OtherPages(n, lim, off) \cup {ErrorObject, EmptyDict, None}

\* lines 128-133: the page taken from a response
\* (without the branch of lines 130-131: a mapping is always a single record)
NormalizeNoData(response) ==
    IF response.type = "list" THEN response.items
    ELSE IF Truthy(response) THEN <<response>> ELSE << >>
Normalize(response) ==
    IF response.type = "list" THEN response.items
    ELSE IF HasKey(response, "data") THEN response.fields["data"].items
    ELSE IF Truthy(response) THEN <<response>> ELSE << >>

\* if len(data) < limit: break
\* (a full page taken for the last one)
ShortOrFullPage(data, lim) == Len(data) <= lim
\* (a page one record short not taken for the last one)
ShortByTwo(data, lim) == Len(data) < lim - 1
ShortPage(data, lim) == Len(data) < lim

\* if response is None: break
\* (the loop asks again)
AfterFailureRetry == "loop"
AfterFailure == "done"

\* the inputs enumerated: every size and page size within the bounds, and
\* the 250 records fetched with the default page size
PaginatorInputs ==
    ((0 .. MaxRecords) \X (1 .. MaxPage)) \cup {<<DefaultLimit * 2 + DefaultLimit \div 2,
                                                  DefaultLimit>>}

\* page requests followed per call: a server that never sends a short page
\* keeps the loop going for ever
PageCap == MaxRecords + 1

PagInit ==
    /\ pg_pc = "idle"
    /\ limit = DefaultLimit
    /\ offset = 0
    /\ all_data = << >>
    /\ src_size = 0
    /\ page_requests = << >>
    /\ faithful = TRUE
    /\ received = << >>

\* get_paginated(endpoint, params, limit): all_data = [], offset = 0
GetPaginated(n, lim) ==
    /\ pg_pc = "idle"
    /\ pg_pc' = "loop"
    /\ limit' = lim
    /\ offset' = 0
    /\ all_data' = << >>
    /\ src_size' = n
    /\ page_requests' = << >>
    /\ faithful' = TRUE
    /\ received' = << >>
    /\ UNCHANGED outsidePaginator

\* one turn of `while True` (lines 117-144) with `response` what self.get
\* returned
FetchPage(response) ==
    /\ pg_pc = "loop"
    /\ Len(page_requests) < PageCap
    /\ page_requests' = Append(page_requests, [limit |-> limit, offset |-> offset])
    /\ faithful' = (faithful /\ response.type # "None"
                             /\ Normalize(response) = PageOf(src_size, limit, offset))
    /\ received' = Append(received, response)
    /\ IF response = None
       THEN pg_pc' = AfterFailure /\ UNCHANGED <<all_data, offset>>
       ELSE LET data == Normalize(response)
            IN  IF data = << >>
                THEN pg_pc' = "done" /\ UNCHANGED <<all_data, offset>>
                ELSE /\ all_data' = all_data \o data
                     /\ IF ShortPage(data, limit)
                        THEN pg_pc' = "done" /\ UNCHANGED offset
                        ELSE pg_pc' = "loop" /\ offset' = offset + limit
    /\ UNCHANGED <<limit, src_size, outsidePaginator>>

NextPaginator ==
    \/ \E in \in PaginatorInputs : GetPaginated(in[1], in[2])
    \/ \E response \in PageResponses(src_size, limit, offset) : FetchPage(response)

\* ------------------------------------------------- KaitenMigration.migrate_all
\* Source ids; Missing stands for an absent key and for None (dict.get).
\* Refs are the ids a card's board_id, column_id, lane_id, properties and
\* tags may name.
Ids == {1, 2}
Refs == {1}
Missing == 0

LedgerKinds ==
    {"spaces", "boards", "cards", "comments", "checklists", "tags", "custom_properties"}
MapKinds == {"properties", "tags", "spaces", "boards", "columns", "lanes", "cards"}

\* A source record, with the fields the pipeline reads of any kind.
Item(id) ==
    [id |-> id, archived |-> FALSE, board_id |-> Missing, column_id |-> Missing,
     lane_id |-> Missing, properties |-> {}, tags |-> << >>, items |-> 0]
NoItem == Item(Missing)

\* what a listing of the source may hold: records with an id or, malformed,
\* without one; the same id may be listed twice
PlainRecords == {Item(i) : i \in Ids \cup {Missing}}
RefRecords == {Item(i) : i \in Refs \cup {Missing}}
SpaceRecords == {[r EXCEPT !.archived = a] : r \in PlainRecords, a \in BOOLEAN}
\* a card names a board and a column or leaves them out, and comes bare or
\* with a lane, a property value and a tag
CardRecords ==
    {[r EXCEPT !.board_id = b, !.column_id = c, !.lane_id = x, !.properties = {x} \ {Missing},
               !.tags = IF x = Missing THEN << >> ELSE <<x>>] :
        r \in PlainRecords, b \in Refs \cup {Missing}, c \in Refs \cup {Missing},
        x \in Refs \cup {Missing}}
ChecklistRecords == {[NoItem EXCEPT !.items = k] : k \in 0 .. MaxSub}

\* dict.get(k): the value, or None
Lookup(map, k) == IF k \in DOMAIN map THEN map[k] ELSE Missing
\* d[k] = v
Store(map, k, v) == [x \in DOMAIN map \cup {k} |-> IF x = k THEN v ELSE map[x]]

\* what a creation call on the target returns: the created object with a
\* fresh id or, MaxFaults times a run, an object without id, {} or None
Created == Dict([k \in {"id"} |-> target_posts + 101])
TargetResults ==
    {Created} \cup (IF faults < MaxFaults THEN {ErrorObject, EmptyDict, None} ELSE {})

\* if result and 'id' in result
Succeeded(result) == Truthy(result) /\ HasKey(result, "id")

Request(endpoint, src, parent) ==
    [endpoint |-> endpoint, src |-> src, parent |-> parent, column_id |-> Missing,
     lane_id |-> Missing, properties |-> {}, ref |-> Missing]
NoRequest2 == Request("", Missing, Missing)

\* self.target.post(endpoint, data) returning `result`
Post(request, result) ==
    /\ target_posts' = target_posts + 1
    /\ last_request' = request
    /\ kinds_sent' = kinds_sent \cup {request.endpoint}
    /\ faults' = IF Succeeded(result) THEN faults ELSE faults + 1
\* the step sends nothing
NoPost == last_request' = NoRequest2 /\ UNCHANGED <<target_posts, kinds_sent, faults>>

\* the source returned n more records, the loops visited one (that brought
\* k records of its own)
Fetched(n) ==
    pending' = pending + n /\ fetched' = fetched + n /\ UNCHANGED active_spaces
Visited(k) == pending' = pending - 1 + k /\ UNCHANGED <<fetched, active_spaces>>
\* the loop of the spaces got past the test of `archived` with a space
VisitedActive ==
    pending' = pending - 1 /\ active_spaces' = active_spaces + 1 /\ UNCHANGED fetched
\* the lengths of a listing the source may still return
Upto(n) == 0 .. Min(n, MaxSource - fetched)

\* self.stats[kind]['total'] += len(...): lines 314, 471, 496
\* (the total overwritten with the length of the latest listing)
Overwritten(total, n) == n
Accumulated(total, n) == total + n

Count(kind, field) == [stats EXCEPT ![kind][field] = @ + 1]
\* self.id_map[kind][old_id] = result['id']
\* (the source id stored in its place)
RecordSourceId(kind, k, v) == [id_map EXCEPT ![kind] = Store(@, k, k)]
Record(kind, k, v) == [id_map EXCEPT ![kind] = Store(@, k, v)]

\* migrate_all, lines 180-200: the stage that follows a stage
StagesSwapped(stage) ==
    CASE stage = "properties" -> "fetch_spaces"
      [] stage = "spaces" -> "fetch_tags"
      [] stage = "tags" -> "fetch_cards"
      [] stage = "cards" -> "comments_loop"
      [] stage = "comments" -> "checklists_loop"
      [] stage = "checklists" -> "relations_loop"
      [] stage = "relations" -> "done"
StageAfter(stage) ==
    CASE stage = "properties" -> "fetch_tags"
      [] stage = "tags" -> "fetch_spaces"
      [] stage = "spaces" -> "fetch_cards"
      [] stage = "cards" -> "comments_loop"
      [] stage = "comments" -> "checklists_loop"
      [] stage = "checklists" -> "relations_loop"
      [] stage = "relations" -> "done"

\* the locals of the loops, none of them bound
NoFrame ==
    [left |-> 0, item |-> NoItem, idx |-> 0, old_id |-> Missing,
     new_id |-> Missing, sub_left |-> 0, sub_item |-> NoItem,
     sub_old |-> Missing, sub_new |-> Missing, cols_left |-> 0,
     lanes_left |-> 0, leaf_item |-> NoItem, items_left |-> 0,
     tags_left |-> << >>]

At(p, fr) == [pc |-> p, frame |-> fr]
Go(nx) == mg_pc' = nx.pc /\ frame' = nx.frame

\* `for x in xs:` of a stage's own listing moves on: to the next record, or
\* past the loop to the next stage
NextOf(fr, records, stage) ==
    IF fr.left > 1
    THEN {At(stage, [fr EXCEPT !.left = @ - 1, !.item = r]) : r \in records}
    ELSE {At(StageAfter(stage), NoFrame)}
\* the loop is entered with n records
EnterWith(fr, n, records, stage) == NextOf([fr EXCEPT !.left = n + 1], records, stage)

NextSpace(fr) == NextOf(fr, SpaceRecords, "spaces")
NextCard(fr) == NextOf(fr, CardRecords, "cards")

\* `for board in boards:` moves on, or migrate_boards_in_space returns
NextBoard(fr) ==
    IF fr.sub_left > 1
    THEN {At("boards", [fr EXCEPT !.sub_left = @ - 1, !.sub_item = r]) : r \in RefRecords}
    ELSE NextSpace([NoFrame EXCEPT !.left = fr.left])

\* `for lane in lanes:` moves on, or migrate_columns_and_lanes returns
NextLane(fr) ==
    IF fr.lanes_left > 1
    THEN {At("lanes", [fr EXCEPT !.lanes_left = @ - 1, !.leaf_item = r]) : r \in RefRecords}
    ELSE NextBoard([fr EXCEPT !.lanes_left = 0, !.leaf_item = NoItem,
                              !.sub_old = Missing, !.sub_new = Missing])

\* `for col in columns:` moves on, or the lanes' loop is entered
NextColumn(fr) ==
    IF fr.cols_left > 1
    THEN {At("columns", [fr EXCEPT !.cols_left = @ - 1, !.leaf_item = r]) : r \in RefRecords}
    ELSE NextLane([fr EXCEPT !.cols_left = 0, !.lanes_left = @ + 1])

\* the loops over a migrated card's comments, checklists, children and over
\* a checklist's items
NextSub(fr, records, stage, loop) ==
    IF fr.sub_left > 1
    THEN {At(stage, [fr EXCEPT !.sub_left = @ - 1, !.sub_item = r]) : r \in records}
    ELSE {At(loop, [NoFrame EXCEPT !.idx = fr.idx])}
NextComment(fr) == NextSub(fr, {NoItem}, "comments", "comments_loop")
NextChecklist(fr) == NextSub(fr, ChecklistRecords, "checklists", "checklists_loop")
NextChild(fr) == NextSub(fr, PlainRecords, "relations", "relations_loop")
NextChecklistItem(fr) ==
    IF fr.items_left > 1
    THEN {At("checklist_items", [fr EXCEPT !.items_left = @ - 1])}
    ELSE NextChecklist([fr EXCEPT !.items_left = 0, !.sub_new = Missing])
\* `for tag in tags:` of migrate_card_tags moves on, or the card is done
NextCardTag(fr) ==
    IF Len(fr.tags_left) > 1
    THEN {At("card_tags", [fr EXCEPT !.tags_left = Tail(@)])}
    ELSE NextCard([NoFrame EXCEPT !.left = fr.left])

\* KaitenMigration.__init__: self.id_map (line 159), self.stats (lines 162-170)
NewIdMap == [k \in MapKinds |-> << >>]
NewStats == [k \in LedgerKinds |-> [total |-> 0, migrated |-> 0, failed |-> 0]]
NoRun == [ran |-> FALSE, id_map |-> NewIdMap]

MigInit ==
    /\ mg_pc = "fetch_properties"
    /\ id_map = NewIdMap
    /\ cards_order = << >>
    /\ stats = NewStats
    /\ first_run = NoRun
    /\ frame = NoFrame
    /\ raised = FALSE
    /\ target_posts = 0
    /\ last_request = NoRequest2
    /\ kinds_sent = {}
    /\ outcome = "none"
    /\ pending = 0
    /\ fetched = 0
    /\ active_spaces = 0
    /\ fetched = 0
    /\ faults = 0

\* prop['id'] (tag['id'], space['id'], ...) on a record without the key:
\* KeyError, caught by the `except Exception` of migrate_all (line 202)
\* (the counters lost with the exception)
RaiseResets ==
    /\ mg_pc' = "done"
    /\ raised' = TRUE
    /\ outcome' = "raised"
    /\ NoPost
    /\ stats' = NewStats
    /\ UNCHANGED <<id_map, cards_order, frame, pending, fetched, active_spaces>>
Raise ==
    /\ mg_pc' = "done"
    /\ raised' = TRUE
    /\ outcome' = "raised"
    /\ NoPost
    /\ UNCHANGED <<id_map, cards_order, stats, frame, pending, fetched, active_spaces>>

\* a stage's listing: source.get_paginated(...) returned n records
Listing(kind, n, nexts, how) ==
    /\ stats' = [stats EXCEPT ![kind].total = n]
    /\ Fetched(n)
    /\ \E nx \in nexts : Go(nx)
    /\ outcome' = how
    /\ NoPost
    /\ UNCHANGED <<id_map, cards_order, raised, outsidePipeline>>

\* lines 218-219
FetchProperties ==
    /\ mg_pc = "fetch_properties"
    /\ \E n \in Upto(MaxSub), response \in {"page", "None"} :
           \* the run's first call: when it fails (bad token, host unreachable),
           \* self.get returns None and get_paginated returns []
           /\ response = "None" => n = 0
           /\ Listing("custom_properties", n, EnterWith(frame, n, RefRecords, "properties"),
                      IF response = "None" THEN "setup_error" ELSE "none")

\* lines 251-252
FetchTags ==
    /\ mg_pc = "fetch_tags"
    /\ \E n \in Upto(MaxSub) : Listing("tags", n, EnterWith(frame, n, RefRecords, "tags"), "none")

\* One record of the properties' or the tags' loop: lines 221-245, 254-272.
MigrateSimple(stage, kind, ledger, endpoint) ==
    /\ mg_pc = stage
    /\ IF frame.item.id = Missing
       THEN Raise
       ELSE \E result \in TargetResults, nx \in NextOf(frame, RefRecords, stage) :
               /\ Post(Request(endpoint, frame.item.id, Missing), result)
               /\ IF Succeeded(result)
                  THEN /\ id_map' = Record(kind, frame.item.id, result.fields["id"])
                       /\ stats' = Count(ledger, "migrated")
                       /\ outcome' = "created"
                  ELSE /\ stats' = Count(ledger, "failed")
                       /\ outcome' = "failed"
                       /\ UNCHANGED id_map
               /\ Visited(0)
               /\ Go(nx)
               /\ UNCHANGED <<cards_order, raised>>
    /\ UNCHANGED outsidePipeline

MigrateProperty ==
    MigrateSimple("properties", "properties", "custom_properties", "/custom-properties")
MigrateTag == MigrateSimple("tags", "tags", "tags", "/tags")

\* lines 278-279
FetchSpaces ==
    /\ mg_pc = "fetch_spaces"
    /\ \E n \in Upto(MaxList) :
           Listing("spaces", n, EnterWith(frame, n, SpaceRecords, "spaces"), "none")

\* if space.get('archived'): lines 282-284
\* (no space taken for archived)
NeverArchived(space) == FALSE
Archived(space) == space.archived

\* lines 298-301: the space was not created; `continue`
\* (its boards are migrated all the same)
SpaceFailedFetchesBoards(fr) == {At("fetch_boards", fr)}
SpaceFailed(fr) == NextSpace(fr)

\* One space of migrate_spaces_and_boards: lines 281-306.
MigrateSpace ==
    /\ mg_pc = "spaces"
    /\ IF Archived(frame.item)
       THEN \* continue
            /\ \E nx \in NextSpace(frame) : Go(nx)
            /\ Visited(0)
            /\ outcome' = "archived"
            /\ NoPost
            /\ UNCHANGED <<id_map, cards_order, stats, raised>>
       ELSE IF frame.item.id = Missing
       THEN Raise
       ELSE \E result \in TargetResults :
               /\ Post(Request("/spaces", frame.item.id, Missing), result)
               /\ VisitedActive
               /\ IF ~Succeeded(result)
                  THEN /\ stats' = Count("spaces", "failed")
                       /\ outcome' = "failed"
                       /\ \E nx \in SpaceFailed(frame) : Go(nx)
                       /\ UNCHANGED id_map
                  ELSE /\ id_map' = Record("spaces", frame.item.id, result.fields["id"])
                       /\ stats' = Count("spaces", "migrated")
                       /\ outcome' = "created"
                       /\ Go(At("fetch_boards",
                                [frame EXCEPT !.old_id = frame.item.id,
                                              !.new_id = result.fields["id"]]))
               /\ UNCHANGED <<cards_order, raised>>
    /\ UNCHANGED outsidePipeline

\* migrate_boards_in_space, lines 313-314
FetchBoards ==
    /\ mg_pc = "fetch_boards"
    /\ \E n \in Upto(MaxSub) :
           /\ stats' = [stats EXCEPT !["boards"].total = Accumulated(@, n)]
           /\ Fetched(n)
           /\ \E nx \in NextBoard([frame EXCEPT !.sub_left = n + 1]) : Go(nx)
    /\ outcome' = "none"
    /\ NoPost
    /\ UNCHANGED <<id_map, cards_order, raised, outsidePipeline>>

\* One board: lines 316-332, 338-340.
MigrateBoard ==
    /\ mg_pc = "boards"
    /\ IF frame.sub_item.id = Missing
       THEN Raise
       ELSE \E result \in TargetResults :
               /\ Post(Request("/boards", frame.sub_item.id, frame.new_id), result)
               /\ Visited(0)
               /\ IF Succeeded(result)
                  THEN /\ id_map' = Record("boards", frame.sub_item.id, result.fields["id"])
                       /\ stats' = Count("boards", "migrated")
                       /\ outcome' = "created"
                       /\ Go(At("board_details",
                                [frame EXCEPT !.sub_old = frame.sub_item.id,
                                              !.sub_new = result.fields["id"]]))
                  ELSE /\ stats' = Count("boards", "failed")
                       /\ outcome' = "failed"
                       /\ \E nx \in NextBoard(frame) : Go(nx)
                       /\ UNCHANGED id_map
               /\ UNCHANGED <<cards_order, raised>>
    /\ UNCHANGED outsidePipeline

\* board_details = self.source.get(...); if board_details: the columns and
\* lanes it lists (lines 335-337, 345, 361)
FetchBoardDetails ==
    /\ mg_pc = "board_details"
    /\ \E found \in BOOLEAN, ncols \in Upto(MaxSub), nlanes \in Upto(MaxSub) :
           IF found
           THEN /\ ncols + nlanes <= MaxSource - fetched
                /\ Fetched(ncols + nlanes)
                /\ \E nx \in NextColumn([frame EXCEPT !.cols_left = ncols + 1,
                                                      !.lanes_left = nlanes]) : Go(nx)
           ELSE /\ ncols = 0 /\ nlanes = 0
                /\ UNCHANGED <<pending, fetched, active_spaces>>
                /\ \E nx \in NextBoard(frame) : Go(nx)
    /\ outcome' = "none"
    /\ NoPost
    /\ UNCHANGED <<id_map, cards_order, stats, raised, outsidePipeline>>

\* One column or lane of migrate_columns_and_lanes: lines 346-358, 362-373.
MigrateLeaf(stage, kind, endpoint, nexts) ==
    /\ mg_pc = stage
    /\ IF frame.leaf_item.id = Missing
       THEN Raise
       ELSE \E result \in TargetResults, nx \in nexts :
               /\ Post(Request(endpoint, frame.leaf_item.id, frame.sub_new), result)
               /\ IF Succeeded(result)
                  THEN /\ id_map' = Record(kind, frame.leaf_item.id, result.fields["id"])
                       /\ outcome' = "created"
                  ELSE /\ outcome' = "failed"
                       /\ UNCHANGED id_map
               /\ Visited(0)
               /\ Go(nx)
               /\ UNCHANGED <<cards_order, stats, raised>>
    /\ UNCHANGED outsidePipeline

MigrateColumn == MigrateLeaf("columns", "columns", "/columns", NextColumn(frame))
MigrateLane == MigrateLeaf("lanes", "lanes", "/lanes", NextLane(frame))

\* lines 380-386
FetchCards ==
    /\ mg_pc = "fetch_cards"
    /\ \E n \in Upto(MaxList) : Listing("cards", n, EnterWith(frame, n, CardRecords, "cards"), "none")

\* lines 398-414: `not new_board_id`, `not new_column_id`
\* (only the board looked at)
BoardMissingOnly(card) == Lookup(id_map["boards"], card.board_id) = Missing
DependencyMissing(card) ==
    \/ Lookup(id_map["boards"], card.board_id) = Missing
    \/ Lookup(id_map["columns"], card.column_id) = Missing

\* lines 416-440: new_card
\* (the lane copied from the source card)
NewCardCopiesLane(card) ==
    [Request("/cards", card.id, Lookup(id_map["boards"], card.board_id)) EXCEPT
        !.column_id = Lookup(id_map["columns"], card.column_id),
        !.lane_id = card.lane_id,
        !.properties = {id_map["properties"][q] :
                            q \in card.properties \cap DOMAIN id_map["properties"]}]
NewCard(card) ==
    [Request("/cards", card.id, Lookup(id_map["boards"], card.board_id)) EXCEPT
        !.column_id = Lookup(id_map["columns"], card.column_id),
        !.lane_id = IF card.lane_id # Missing
                    THEN Lookup(id_map["lanes"], card.lane_id) ELSE Missing,
        !.properties = {id_map["properties"][q] :
                            q \in card.properties \cap DOMAIN id_map["properties"]}]

\* lines 452-454: the card was not created; the loop of migrate_cards goes on
\* (the loop left at the first card that fails)
CardFailedBreaks(fr) == {At(StageAfter("cards"), NoFrame)}
CardFailed(fr) == NextCard(fr)

\* lines 400-403, 411-414: self.stats['cards']['failed'] += 1
\* (a skipped card counted nowhere)
SkippedCardUncounted == stats
SkippedCard == Count("cards", "failed")

\* migrate_single_card, lines 393-454
MigrateSingleCard ==
    /\ mg_pc = "cards"
    /\ LET card == frame.item
       IN  IF card.id = Missing
           THEN Raise
           ELSE IF DependencyMissing(card)
           THEN \* warning, failed += 1, return
                /\ stats' = SkippedCard
                /\ outcome' = "skipped"
                /\ Visited(0)
                /\ \E nx \in CardFailed(frame) : Go(nx)
                /\ NoPost
                /\ UNCHANGED <<id_map, cards_order, raised>>
           ELSE \E result \in TargetResults :
                   /\ Post(NewCard(card), result)
                   /\ IF Succeeded(result)
                      THEN /\ id_map' = Record("cards", card.id, result.fields["id"])
                           /\ cards_order' = IF card.id \in DOMAIN id_map["cards"]
                                             THEN cards_order
                                             ELSE Append(cards_order, card.id)
                           /\ stats' = Count("cards", "migrated")
                           /\ outcome' = "created"
                           /\ Visited(Len(card.tags))
                           \* migrate_card_tags(card_id, result['id'], card.get('tags', []))
                           /\ \E nx \in NextCardTag([frame EXCEPT
                                          !.new_id = result.fields["id"],
                                          !.tags_left = <<Missing>> \o card.tags]) : Go(nx)
                      ELSE /\ stats' = Count("cards", "failed")
                           /\ outcome' = "failed"
                           /\ Visited(0)
                           /\ \E nx \in CardFailed(frame) : Go(nx)
                           /\ UNCHANGED <<id_map, cards_order>>
                   /\ UNCHANGED raised
    /\ UNCHANGED outsidePipeline

\* One tag of migrate_card_tags: lines 458-463.
MigrateCardTag ==
    /\ mg_pc = "card_tags"
    /\ LET new_tag_id == Lookup(id_map["tags"], Head(frame.tags_left))
       IN  /\ IF new_tag_id # Missing
              THEN /\ \E result \in TargetResults :
                         Post([Request("/cards/{id}/tags", Head(frame.tags_left),
                                       frame.new_id) EXCEPT !.ref = new_tag_id], result)
                   /\ outcome' = "sent"
              ELSE NoPost /\ outcome' = "unmapped"
           /\ Visited(0)
           /\ \E nx \in NextCardTag(frame) : Go(nx)
    /\ UNCHANGED <<id_map, cards_order, stats, raised, outsidePipeline>>

\* `for old_card_id, new_card_id in self.id_map['cards'].items():` of
\* migrate_comments, migrate_checklists and migrate_card_relations
NextMigratedCard(loop, fetch, stage) ==
    /\ mg_pc = loop
    /\ IF frame.idx < Len(cards_order)
       THEN Go(At(fetch, [frame EXCEPT !.idx = @ + 1,
                                       !.old_id = cards_order[frame.idx + 1],
                                       !.new_id = id_map["cards"][cards_order[frame.idx + 1]]]))
       ELSE Go(At(StageAfter(stage), NoFrame))
    /\ outcome' = "none"
    /\ NoPost
    /\ UNCHANGED <<id_map, cards_order, stats, raised, pending, fetched, active_spaces,
                   outsidePipeline>>

CommentsLoop == NextMigratedCard("comments_loop", "fetch_comments", "comments")
ChecklistsLoop == NextMigratedCard("checklists_loop", "fetch_checklists", "checklists")
RelationsLoop == NextMigratedCard("relations_loop", "fetch_children", "relations")

\* a card's listing: lines 470-471, 495-496, 532
SubListing(fetch) ==
    /\ mg_pc = fetch
    /\ \E n \in Upto(MaxSub) :
           LET nexts(fr) == CASE fetch = "fetch_comments" -> NextComment(fr)
                              [] fetch = "fetch_checklists" -> NextChecklist(fr)
                              [] fetch = "fetch_children" -> NextChild(fr)
           IN
           /\ stats' = IF fetch = "fetch_comments"
                       THEN [stats EXCEPT !["comments"].total = Accumulated(@, n)]
                       ELSE IF fetch = "fetch_checklists"
                       THEN [stats EXCEPT !["checklists"].total = Accumulated(@, n)]
                       ELSE stats
           /\ Fetched(n)
           /\ \E nx \in nexts([frame EXCEPT !.sub_left = n + 1]) : Go(nx)
    /\ outcome' = "none"
    /\ NoPost
    /\ UNCHANGED <<id_map, cards_order, raised, outsidePipeline>>

FetchComments == SubListing("fetch_comments")
FetchChecklists == SubListing("fetch_checklists")
FetchChildren == SubListing("fetch_children")

\* One comment: lines 474-486.
MigrateComment ==
    /\ mg_pc = "comments"
    /\ \E result \in TargetResults, nx \in NextComment(frame) :
           /\ Post(Request("/card-comments/add-comment", Missing, frame.new_id), result)
           /\ IF Truthy(result)
              THEN stats' = Count("comments", "migrated") /\ outcome' = "created"
              ELSE stats' = Count("comments", "failed") /\ outcome' = "failed"
           /\ Visited(0)
           /\ Go(nx)
    /\ UNCHANGED <<id_map, cards_order, raised, outsidePipeline>>

\* One checklist: lines 499-511, 519-520.
MigrateChecklist ==
    /\ mg_pc = "checklists"
    /\ \E result \in TargetResults :
           /\ Post(Request("/card-checklists", Missing, frame.new_id), result)
           /\ IF Succeeded(result)
              THEN /\ stats' = Count("checklists", "migrated")
                   /\ outcome' = "created"
                   /\ Visited(frame.sub_item.items)
                   /\ \E nx \in NextChecklistItem([frame EXCEPT
                                  !.sub_new = result.fields["id"],
                                  !.items_left = frame.sub_item.items + 1]) : Go(nx)
              ELSE /\ stats' = Count("checklists", "failed")
                   /\ outcome' = "failed"
                   /\ Visited(0)
                   /\ \E nx \in NextChecklist(frame) : Go(nx)
    /\ UNCHANGED <<id_map, cards_order, raised, outsidePipeline>>

\* 'checklist_id': new_checklist_id (line 515)
\* (the card's id in its place)
ItemParentCard(fr) == fr.new_id
ItemParent(fr) == fr.sub_new

\* One item of a checklist: lines 512-518.
MigrateChecklistItem ==
    /\ mg_pc = "checklist_items"
    /\ \E result \in TargetResults, nx \in NextChecklistItem(frame) :
           /\ Post(Request("/card-checklist-items", Missing, ItemParent(frame)), result)
           /\ Go(nx)
    /\ outcome' = "sent"
    /\ Visited(0)
    /\ UNCHANGED <<id_map, cards_order, stats, raised, outsidePipeline>>

\* new_child_id = self.id_map['cards'].get(old_child_id) (lines 535-536)
\* (the child's source id in its place)
NewChildIdCopied(child) == child.id
NewChildId(child) == Lookup(id_map["cards"], child.id)

\* One child of a card: lines 534-546.
MigrateRelation ==
    /\ mg_pc = "relations"
    /\ LET new_child_id == NewChildId(frame.sub_item)
       IN  /\ IF new_child_id # Missing
              THEN /\ \E result \in TargetResults :
                         Post([Request("/cards/{id}/children", frame.sub_item.id,
                                       frame.new_id) EXCEPT !.ref = new_child_id], result)
                   /\ outcome' = "sent"
              ELSE NoPost /\ outcome' = "unmapped"
           /\ Visited(0)
           /\ \E nx \in NextChild(frame) : Go(nx)
    /\ UNCHANGED <<id_map, cards_order, stats, raised, outsidePipeline>>

Next ==
    \/ FetchProperties \/ MigrateProperty
    \/ FetchTags \/ MigrateTag
    \/ FetchSpaces \/ MigrateSpace
    \/ FetchBoards \/ MigrateBoard \/ FetchBoardDetails \/ MigrateColumn \/ MigrateLane
    \/ FetchCards \/ MigrateSingleCard \/ MigrateCardTag
    \/ CommentsLoop \/ FetchComments \/ MigrateComment
    \/ ChecklistsLoop \/ FetchChecklists \/ MigrateChecklist \/ MigrateChecklistItem
    \/ RelationsLoop \/ FetchChildren \/ MigrateRelation

\* main(), lines 604-611, run once more with the same accounts: a new
\* KaitenMigration is constructed and migrate_all called.  The target keeps
\* what the first run created (its ids go on from there); nothing of the first
\* run's id_map or stats reaches the second.  (Bounds: the second run follows
\* a first run without a failed call, and no call of the second run fails.)
\* (a run resumed with the id_map of the first)
RunAgainResumed ==
    /\ mg_pc = "done"
    /\ ~ first_run.ran
    /\ ~ raised
    /\ faults = 0
    /\ fetched = MaxSource - MaxRerun
    /\ first_run' = [ran |-> TRUE, id_map |-> id_map]
    /\ mg_pc' = "fetch_properties"
    /\ stats' = NewStats
    /\ frame' = NoFrame
    /\ kinds_sent' = {}
    /\ outcome' = "none"
    /\ active_spaces' = 0
    /\ last_request' = NoRequest2
    /\ faults' = MaxFaults
    /\ UNCHANGED <<id_map, cards_order, raised, target_posts, pending, fetched>>
    /\ UNCHANGED <<govVars, thrVars, reqVars, pagVars, cliVars, dslVars, engVars, crwVars>>
RunAgain ==
    /\ mg_pc = "done"
    /\ ~ first_run.ran
    /\ ~ raised
    /\ faults = 0
    /\ fetched = MaxSource - MaxRerun
    /\ first_run' = [ran |-> TRUE, id_map |-> id_map]
    /\ mg_pc' = "fetch_properties"
    /\ id_map' = NewIdMap
    /\ cards_order' = << >>
    /\ stats' = NewStats
    /\ frame' = NoFrame
    /\ kinds_sent' = {}
    /\ outcome' = "none"
    /\ active_spaces' = 0
    /\ last_request' = NoRequest2
    /\ faults' = MaxFaults
    /\ UNCHANGED <<raised, target_posts, pending, fetched>>
    /\ UNCHANGED <<govVars, thrVars, reqVars, pagVars, cliVars, dslVars, engVars, crwVars>>

NextRerun == Next \/ RunAgain

\* ------------------------------ kaiten_dsl_engine.py: KaitenDSLEngine.execute
\* a key that a mapping of the configuration lacks
Absent == "(absent)"
\* the length of a list whose key the item lacks (`'boards' in space` false)
NoList == -1

\* config['version'] as YAML loads it: a string, a float or an int
Version(type, text) == [type |-> type, text |-> text]
NoVersion == Version("absent", "")
Versions == {Version("str", "1.0"), Version("float", "1.0"), Version("float", "2.0")}
\* the value of a number, in tenths
Tenths(text) == CASE text = "1.0" -> 10 [] text = "1" -> 10 [] text = "2.0" -> 20
\* config['version'] in ['1.0', 1.0]: equal to the string, or to the number
VersionAccepted(v) ==
    \/ v.type = "str" /\ v.text = "1.0"
    \/ v.type \in {"float", "int"} /\ Tenths(v.text) = 10

\* validate_config, lines 156-172
\* (every configuration valid)
ValidateConfigAlways(config) == TRUE
ValidateConfig(config) ==
    /\ config.version # NoVersion
    /\ config.kaiten
    /\ VersionAccepted(config.version)

\* steps, lines 131-139
\* (the tags before the custom properties)
StepsTagsFirst ==
    <<"tags", "custom_properties", "card_types", "spaces", "automations", "cards">>
Steps == <<"custom_properties", "tags", "card_types", "spaces", "automations", "cards">>

\* A configuration (a dict): its version, whether it has the key 'kaiten',
\* and its other keys.  Of the other keys the state holds those the run has
\* looked up and found so far.
Configs == [version : Versions \cup {NoVersion}, kaiten : BOOLEAN, keys : {{}}]
NoConfig == [version |-> NoVersion, kaiten |-> FALSE, keys |-> {}]
\* step_name in config
InConfig(config, step_name) == step_name \in config.keys

\* resolve_variables, lines 174-195: ${VAR} replaced by the context's
\* variable, '' when there is none (the context's variables are never set)
ResolveVariables(value) == IF value = "${team}" THEN "" ELSE value

\* the names a configuration may use
SimpleNames == {"x"}
SpaceNames == {"a", "a.b"}
BoardNames == {"b.c", "c"}
ColumnNames == {"d"}
LaneNames == {"${team}"}
\* f"{space_name}.{board_name}", f"{board_key}.{col_name}"
Key(parent, name) == parent \o "." \o name
\* what a card's 'board' may name: Space.Board
BoardRefs == {Key(s, b) : s \in SpaceNames, b \in BoardNames}

\* an item of a list of the configuration, with the fields the engine reads
EngItem(name) ==
    [name |-> name, boards |-> NoList, columns |-> NoList, lanes |-> NoList,
     space |-> Absent, board |-> Absent, column |-> Absent]
SimpleItems == {EngItem(n) : n \in SimpleNames \cup {Absent}}

\* ExecutionContext.created_ids, lines 33-41
CreatedKinds == {"spaces", "boards", "columns", "lanes", "properties", "tags", "card_types"}
NewCreatedIds == [k \in CreatedKinds |-> << >>]
\* self.context.created_ids[kind][key] = id
EngRecord(kind, key, id) == [created_ids EXCEPT ![kind] = Store(@, key, id)]

\* a `for` loop of the engine: the items it has left, and the parent's id,
\* key and names it was called with
Loop(kind, n, id, key, path) ==
    [kind |-> kind, left |-> n, parent_id |-> id, parent_key |-> key, path |-> path]
\* the loops that are over return to their callers
RECURSIVE Unwind(_)
Unwind(stack) ==
    IF stack = << >> THEN << >>
    ELSE IF Head(stack).left = 0 THEN Unwind(Tail(stack))
    ELSE stack
\* the innermost loop is done with its current item
Taken(stack) == <<[Head(stack) EXCEPT !.left = @ - 1]>> \o Tail(stack)

\* the lengths a list being entered may have
EngUpto(n) == 0 .. Min(n, MaxEntities - eng_listed)

\* what api.post returns: in dry-run the mock; otherwise the created object
\* with a fresh id or, MaxEngFaults times, None, {} or an exception
EngCreated == Dict([k \in {"id"} |-> Len(eng_sent) + 101])
EngResults ==
    IF eng_dry_run THEN {Mock}
    ELSE {EngCreated} \cup (IF eng_faults < MaxEngFaults THEN {None, EmptyDict, Raised} ELSE {})
IsRaised(result) == result.type = "raise"

\* self.api.post(endpoint, data) returning `result`
EngPost(endpoint, result) ==
    /\ eng_sent' = Append(eng_sent, endpoint)
    /\ eng_faults' = IF ~ IsRaised(result) /\ Succeeded(result) THEN eng_faults
                     ELSE eng_faults + 1
EngNoPost == UNCHANGED <<eng_sent, eng_faults>>

Last(kind, item, key, how) ==
    [kind |-> kind, item |-> item, key |-> key, outcome |-> how]
NoLast == Last("", EngItem(Absent), Absent, "none")

EngInit ==
    /\ eng_pc = "main"
    /\ eng_config = NoConfig
    /\ eng_dry_run = FALSE
    /\ eng_step = 0
    /\ eng_stack = << >>
    /\ created_ids = NewCreatedIds
    /\ eng_sent = << >>
    /\ eng_last = NoLast
    /\ eng_owners = {}
    /\ eng_listed = 0
    /\ eng_faults = 0
    /\ eng_result = "none"

\* main(), lines 543-559 with `validate`: validate_config alone
MainValidate ==
    /\ eng_pc = "main"
    /\ eng_pc' = "returned"
    /\ eng_dry_run' = DryRun("validate")
    /\ \E config \in Configs :
           /\ eng_config' = config
           /\ eng_result' = IF ValidateConfig(config) THEN "True" ELSE "False"
    /\ UNCHANGED <<eng_step, eng_stack, created_ids, eng_sent, eng_last, eng_owners,
                   eng_listed, eng_faults, outsideEngine>>

\* main(), lines 543-566 with `apply` or `dry-run`, and the head of execute,
\* lines 124-128
Execute(command) ==
    /\ eng_pc = "main"
    /\ eng_dry_run' = DryRun(command)
    /\ \E config \in Configs :
           /\ eng_config' = config
           /\ IF ValidateConfig(config)
              THEN eng_pc' = "steps" /\ eng_result' = eng_result
              ELSE eng_pc' = "returned" /\ eng_result' = "False"
    /\ UNCHANGED <<eng_step, eng_stack, created_ids, eng_sent, eng_last, eng_owners,
                   eng_listed, eng_faults, outsideEngine>>

\* an exception reaches the `except` of execute, lines 152-154
EngRaise ==
    /\ eng_pc' = "returned"
    /\ eng_result' = "False"
    /\ eng_stack' = << >>
    /\ UNCHANGED <<created_ids, eng_owners, eng_listed>>

\* one turn of `for step_name, step_func in steps:`, lines 141-144; the
\* section's value is a list, or (a key without a value) None, which `for`
\* cannot iterate
TakeStep ==
    /\ eng_pc = "steps"
    /\ eng_stack = << >>
    /\ eng_step < Len(Steps)
    /\ eng_step' = eng_step + 1
    /\ LET step_name == Steps[eng_step + 1]
       IN  \/ \* step_name not in config
              UNCHANGED <<eng_config, eng_pc, eng_result, eng_stack, eng_listed, eng_last>>
           \/ /\ Cardinality(eng_config.keys) < MaxKeys
              /\ eng_config' = [eng_config EXCEPT !.keys = @ \cup {step_name}]
              /\ \/ \E n \in EngUpto(MaxItems) :
                        /\ eng_stack' = Unwind(<<Loop(step_name, n, Missing, "", << >>)>>)
                        /\ eng_listed' = eng_listed + n
                        /\ UNCHANGED <<eng_pc, eng_result, eng_last>>
                 \/ /\ eng_pc' = "returned"
                    /\ eng_result' = "False"
                    /\ eng_last' = Last(step_name, EngItem(Absent), Absent, "raised")
                    /\ UNCHANGED <<eng_stack, eng_listed>>
    /\ EngNoPost
    /\ UNCHANGED <<eng_dry_run, created_ids, eng_owners, outsideEngine>>

\* the loop of execute is over: return True, lines 146-149
ExecuteReturn ==
    /\ eng_pc = "steps"
    /\ eng_stack = << >>
    /\ eng_step = Len(Steps)
    /\ eng_pc' = "returned"
    /\ eng_result' = "True"
    /\ UNCHANGED <<eng_config, eng_dry_run, eng_step, eng_stack, created_ids, eng_sent,
                   eng_last, eng_owners, eng_listed, eng_faults, outsideEngine>>

\* the innermost loop under way is the one of `kind`
InLoop(kind) == eng_pc = "steps" /\ eng_stack # << >> /\ Head(eng_stack).kind = kind

\* One item of apply_custom_properties (lines 199-222), apply_tags (226-242)
\* or apply_card_types (246-262).
ApplySimple(step_name, kind, endpoint) ==
    /\ InLoop(step_name)
    /\ \E item \in SimpleItems :
           IF item.name = Absent
           THEN \* prop['name'] raises KeyError
                /\ EngRaise
                /\ EngNoPost
                /\ eng_last' = Last(step_name, item, Absent, "raised")
           ELSE \E result \in EngResults :
                   LET name == ResolveVariables(item.name)
                   IN  /\ EngPost(endpoint, result)
                       /\ IF IsRaised(result)
                          THEN EngRaise /\ eng_last' = Last(step_name, item, name, "raised")
                          ELSE /\ IF Succeeded(result)
                                  THEN /\ created_ids' = EngRecord(kind, name, result.fields["id"])
                                       /\ eng_last' = Last(step_name, item, name, "created")
                                  ELSE /\ created_ids' = created_ids
                                       /\ eng_last' = Last(step_name, item, name, "failed")
                               /\ eng_stack' = Unwind(Taken(eng_stack))
                               /\ UNCHANGED <<eng_pc, eng_result, eng_owners, eng_listed>>
    /\ UNCHANGED <<eng_config, eng_dry_run, eng_step, outsideEngine>>

ApplyCustomProperties == ApplySimple("custom_properties", "properties", "/custom-properties")
ApplyTags == ApplySimple("tags", "tags", "/tags")
ApplyCardTypes == ApplySimple("card_types", "card_types", "/card-types")

\* a key of created_ids was built from these names
Owner(kind, key, path) == [kind |-> kind, key |-> key, path |-> path]

\* the lists an item may carry: absent, or with items as far as the bounds
\* leave room for them
Lists == {NoList} \cup (EngUpto(MaxItems) \ {0})
Length(n) == IF n = NoList THEN 0 ELSE n

\* One space of apply_spaces, lines 266-285.
ApplySpaces ==
    /\ InLoop("spaces")
    /\ \E name \in SpaceNames \cup {Absent}, boards \in Lists :
           LET item == [EngItem(name) EXCEPT !.boards = boards]
           IN
           IF name = Absent
           THEN /\ boards = NoList
                /\ EngRaise
                /\ EngNoPost
                /\ eng_last' = Last("spaces", item, Absent, "raised")
           ELSE \E result \in EngResults :
                   LET space_name == ResolveVariables(name)
                   IN  /\ EngPost("/spaces", result)
                       /\ IF IsRaised(result)
                          THEN /\ boards = NoList
                               /\ EngRaise
                               /\ eng_last' = Last("spaces", item, space_name, "raised")
                          ELSE IF Succeeded(result)
                          THEN /\ created_ids' = EngRecord("spaces", space_name, result.fields["id"])
                               /\ eng_last' = Last("spaces", item, space_name, "created")
                               \* if 'boards' in space: self.apply_boards(...)
                               /\ eng_stack' =
                                      Unwind(<<Loop("boards", Length(boards), result.fields["id"],
                                                    space_name, <<space_name>>)>>
                                             \o Taken(eng_stack))
                               /\ eng_listed' = eng_listed + Length(boards)
                               /\ UNCHANGED <<eng_pc, eng_result, eng_owners>>
                          ELSE /\ boards = NoList
                               /\ eng_last' = Last("spaces", item, space_name, "failed")
                               /\ eng_stack' = Unwind(Taken(eng_stack))
                               /\ UNCHANGED <<eng_pc, eng_result, created_ids, eng_owners,
                                              eng_listed>>
    /\ UNCHANGED <<eng_config, eng_dry_run, eng_step, outsideEngine>>

\* One board of apply_boards, lines 289-317.
ApplyBoards ==
    /\ InLoop("boards")
    /\ \E name \in BoardNames \cup {Absent}, columns \in Lists, lanes \in Lists :
           LET item == [EngItem(name) EXCEPT !.columns = columns, !.lanes = lanes]
               loop == Head(eng_stack)
           IN
           /\ Length(columns) + Length(lanes) <= MaxEntities - eng_listed
           /\ IF name = Absent
              THEN /\ columns = NoList /\ lanes = NoList
                   /\ EngRaise
                   /\ EngNoPost
                   /\ eng_last' = Last("boards", item, Absent, "raised")
              ELSE \E result \in EngResults :
                      LET board_name == ResolveVariables(name)
                          board_key == Key(loop.parent_key, board_name)
                          path == Append(loop.path, board_name)
                      IN  /\ EngPost("/boards", result)
                          /\ IF IsRaised(result)
                             THEN /\ columns = NoList /\ lanes = NoList
                                  /\ EngRaise
                                  /\ eng_last' = Last("boards", item, board_key, "raised")
                             ELSE IF Succeeded(result)
                             THEN /\ created_ids' = EngRecord("boards", board_key, result.fields["id"])
                                  /\ eng_owners' = eng_owners \cup {Owner("boards", board_key, path)}
                                  /\ eng_last' = Last("boards", item, board_key, "created")
                                  \* the columns, then the lanes
                                  /\ eng_stack' =
                                         Unwind(<<Loop("columns", Length(columns),
                                                       result.fields["id"], board_key, path)>>
                                                \o <<Loop("lanes", Length(lanes),
                                                          result.fields["id"], board_key, path)>>
                                                \o Taken(eng_stack))
                                  /\ eng_listed' = eng_listed + Length(columns) + Length(lanes)
                                  /\ UNCHANGED <<eng_pc, eng_result>>
                             ELSE /\ columns = NoList /\ lanes = NoList
                                  /\ eng_last' = Last("boards", item, board_key, "failed")
                                  /\ eng_stack' = Unwind(Taken(eng_stack))
                                  /\ UNCHANGED <<eng_pc, eng_result, created_ids, eng_owners,
                                                 eng_listed>>
    /\ UNCHANGED <<eng_config, eng_dry_run, eng_step, outsideEngine>>

\* One column of apply_columns (lines 321-345) or lane of apply_lanes (349-366).
ApplyLeaf(kind, names, endpoint) ==
    /\ InLoop(kind)
    /\ \E name \in names \cup {Absent} :
           LET item == EngItem(name)
               loop == Head(eng_stack)
           IN
           IF name = Absent
           THEN /\ EngRaise
                /\ EngNoPost
                /\ eng_last' = Last(kind, item, Absent, "raised")
           ELSE \E result \in EngResults :
                   LET key == Key(loop.parent_key, ResolveVariables(name))
                       path == Append(loop.path, ResolveVariables(name))
                   IN  /\ EngPost(endpoint, result)
                       /\ IF IsRaised(result)
                          THEN EngRaise /\ eng_last' = Last(kind, item, key, "raised")
                          ELSE /\ IF Succeeded(result)
                                  THEN /\ created_ids' = EngRecord(kind, key, result.fields["id"])
                                       /\ eng_owners' = eng_owners \cup {Owner(kind, key, path)}
                                       /\ eng_last' = Last(kind, item, key, "created")
                                  ELSE /\ eng_last' = Last(kind, item, key, "failed")
                                       /\ UNCHANGED <<created_ids, eng_owners>>
                               /\ eng_stack' = Unwind(Taken(eng_stack))
                               /\ UNCHANGED <<eng_pc, eng_result, eng_listed>>
    /\ UNCHANGED <<eng_config, eng_dry_run, eng_step, outsideEngine>>

ApplyColumns == ApplyLeaf("columns", ColumnNames, "/columns")
ApplyLanes == ApplyLeaf("lanes", LaneNames, "/lanes")

\* lines 374-377: `if not space_id: continue`
SpaceResolved(space_id) == space_id # Missing

\* One automation of apply_automations, lines 370-395.
ApplyAutomations ==
    /\ InLoop("automations")
    /\ \E space \in SpaceNames \cup {Absent} :
           LET item == [EngItem("x") EXCEPT !.space = space]
           IN
           IF space = Absent
           THEN \* auto['space'] raises KeyError
                /\ EngRaise
                /\ EngNoPost
                /\ eng_last' = Last("automations", item, Absent, "raised")
           ELSE LET space_name == ResolveVariables(space)
                    space_id == Lookup(created_ids["spaces"], space_name)
                IN  IF ~ SpaceResolved(space_id)
                    THEN /\ EngNoPost
                         /\ eng_last' = Last("automations", item, space_name, "skipped")
                         /\ eng_stack' = Unwind(Taken(eng_stack))
                         /\ UNCHANGED <<eng_pc, eng_result, created_ids, eng_owners, eng_listed>>
                    ELSE \E result \in EngResults :
                            /\ EngPost("/automations", result)
                            /\ IF IsRaised(result)
                               THEN EngRaise /\ eng_last' = Last("automations", item, space_name, "raised")
                               ELSE /\ eng_last' = Last("automations", item, space_name,
                                                        IF Truthy(result) THEN "created" ELSE "failed")
                                    /\ eng_stack' = Unwind(Taken(eng_stack))
                                    /\ UNCHANGED <<eng_pc, eng_result, created_ids, eng_owners,
                                                   eng_listed>>
    /\ UNCHANGED <<eng_config, eng_dry_run, eng_step, outsideEngine>>

\* lines 405-410: `if not board_id or not column_id: continue`
\* (the board alone looked at)
CardResolvedBoardOnly(board_id, column_id) == board_id # Missing
CardResolved(board_id, column_id) == board_id # Missing /\ column_id # Missing

\* One card of apply_cards, lines 399-431.
ApplyCards ==
    /\ InLoop("cards")
    /\ \E board \in BoardRefs \cup {Absent}, column \in ColumnNames :
           LET item == [EngItem("x") EXCEPT !.board = board, !.column = column]
           IN
           IF board = Absent
           THEN \* card['board'] raises KeyError
                /\ EngRaise
                /\ EngNoPost
                /\ eng_last' = Last("cards", item, Absent, "raised")
           ELSE LET board_ref == ResolveVariables(board)
                    column_ref == ResolveVariables(column)
                    board_id == Lookup(created_ids["boards"], board_ref)
                    column_id == Lookup(created_ids["columns"], Key(board_ref, column_ref))
                IN  IF ~ CardResolved(board_id, column_id)
                    THEN /\ EngNoPost
                         /\ eng_last' = Last("cards", item, Key(board_ref, column_ref), "skipped")
                         /\ eng_stack' = Unwind(Taken(eng_stack))
                         /\ UNCHANGED <<eng_pc, eng_result, created_ids, eng_owners, eng_listed>>
                    ELSE \E result \in EngResults :
                            /\ EngPost("/cards", result)
                            /\ IF IsRaised(result)
                               THEN EngRaise
                                    /\ eng_last' = Last("cards", item, Key(board_ref, column_ref), "raised")
                               ELSE /\ eng_last' = Last("cards", item, Key(board_ref, column_ref),
                                                        IF Truthy(result) THEN "created" ELSE "failed")
                                    /\ eng_stack' = Unwind(Taken(eng_stack))
                                    /\ UNCHANGED <<eng_pc, eng_result, created_ids, eng_owners,
                                                   eng_listed>>
    /\ UNCHANGED <<eng_config, eng_dry_run, eng_step, outsideEngine>>

NextEngine ==
    \/ MainValidate
    \/ \E command \in {"apply", "dry-run"} : Execute(command)
    \/ TakeStep
    \/ ExecuteReturn
    \/ ApplyCustomProperties
    \/ ApplyTags
    \/ ApplyCardTypes
    \/ ApplySpaces
    \/ ApplyBoards
    \/ ApplyColumns
    \/ ApplyLanes
    \/ ApplyAutomations
    \/ ApplyCards

\* ------------------------------------------------------------ specifications
\* -------------------------------------- scrape_docs.py, scrape_api.py: crawl
Crawlers == {"docs", "api"}
\* A URL, or the href of a link: host ("" when the href is relative), path
\* and fragment.
Url(host, path, frag) == [host |-> host, path |-> path, frag |-> frag]
\* BASE_URL
BaseUrl(c) == Url(IF c = "docs" THEN "faq-ru.kaiten.site" ELSE "developers.kaiten.ru", "", "")
\* an href urljoin cannot parse ("http://["): it raises ValueError
Malformed == Url("[", "", "")
\* the hrefs a page may hold: /a, /a#top, #top, /img.png, /app.js,
\* https://other.site/a
Hrefs ==
    {Url("", "/a", ""), Url("", "/a", "top"), Url("", "", "top"), Url("", "/img.png", ""),
     Url("", "/app.js", ""), Url("other.site", "/a", ""), Malformed}
\* the links of a page, in the order of the document
Pages == UNION {[1 .. n -> Hrefs] : n \in 0 .. MaxLinks}

\* urljoin(BASE_URL, href): an absolute href as it is, a relative one on the
\* base's host, an href of a fragment alone on the base's path
UrlJoin(base, href) ==
    IF href.host # "" THEN href
    ELSE Url(base.host, IF href.path = "" THEN base.path ELSE href.path, href.frag)
\* url.split("#", 1)[0]
StripFragment(url) == [url EXCEPT !.frag = ""]
\* urlparse(url).netloc == urlparse(BASE_URL).netloc
IsSameDomain(c, url) == url.host = BaseUrl(c).host
\* the extensions of bad_ext that the paths above end with
BadExt(c) == IF c = "docs" THEN {".png"} ELSE {".png", ".js"}
Ext(path) == CASE path = "/img.png" -> ".png" [] path = "/app.js" -> ".js" [] OTHER -> ""
\* any(path.endswith(ext) for ext in bad_ext)
LooksLikeBinary(c, url) == Ext(url.path) \in BadExt(c)

InQueue(queue, url) == \E i \in DOMAIN queue : queue[i] = url
\* abs_url not in visited and abs_url not in to_visit
\* (the queue not looked at)
CanEnqueueUnvisited(abs_url, seen, queue) == abs_url \notin seen
CanEnqueue(abs_url, seen, queue) == abs_url \notin seen /\ ~ InQueue(queue, abs_url)

\* `for a in soup.find_all("a", href=True):` over the links of a page: the
\* queue at the end of the loop, or at the link on which urljoin raised
RECURSIVE Enqueue(_, _, _, _)
Enqueue(c, queue, seen, links) ==
    IF links = << >> THEN [queue |-> queue, crashed |-> FALSE]
    ELSE IF Head(links) = Malformed THEN [queue |-> queue, crashed |-> TRUE]
    ELSE LET abs_url == UrlJoin(BaseUrl(c), Head(links))
         IN  IF ~ IsSameDomain(c, abs_url) \/ LooksLikeBinary(c, abs_url)
                \/ ~ CanEnqueue(abs_url, seen, queue)
             THEN Enqueue(c, queue, seen, Tail(links))
             ELSE Enqueue(c, Append(queue, abs_url), seen, Tail(links))

CrwInit ==
    /\ crw_pc = "main"
    /\ crawler = "docs"
    /\ to_visit = << >>
    /\ visited = {}
    /\ crw_fetches = << >>

\* crawl(): to_visit = [BASE_URL]; visited = set()
CrawlStart(c) ==
    /\ crw_pc = "main"
    /\ crw_pc' = "loop"
    /\ crawler' = c
    /\ to_visit' = <<BaseUrl(c)>>
    /\ visited' = {}
    /\ UNCHANGED <<crw_fetches, outsideCrawler>>

\* one turn of the loop on a URL that was visited: `continue`
Revisit ==
    /\ crw_pc = "loop"
    /\ to_visit # << >>
    /\ StripFragment(Head(to_visit)) \in visited
    /\ to_visit' = Tail(to_visit)
    /\ UNCHANGED <<crw_pc, crawler, visited, crw_fetches, outsideCrawler>>

\* one turn of the loop on a new URL: the fetch fails, or gives a page whose
\* links are appended
Visit ==
    /\ crw_pc = "loop"
    /\ to_visit # << >>
    /\ LET url == StripFragment(Head(to_visit))
       IN  /\ url \notin visited
           /\ visited' = visited \cup {url}
           /\ IF LooksLikeBinary(crawler, url)
              THEN to_visit' = Tail(to_visit) /\ UNCHANGED <<crw_pc, crw_fetches>>
              ELSE /\ crw_fetches' = Append(crw_fetches, url)
                   /\ \/ \* fetch(url) / page.goto(url) raises: `continue`
                         to_visit' = Tail(to_visit) /\ UNCHANGED crw_pc
                      \/ \E links \in Pages :
                            LET after == Enqueue(crawler, Tail(to_visit), visited', links)
                            IN  /\ to_visit' = after.queue
                                /\ crw_pc' = IF after.crashed THEN "crashed" ELSE "loop"
    /\ UNCHANGED <<crawler, outsideCrawler>>

\* `while to_visit:` is over
CrawlDone ==
    /\ crw_pc = "loop"
    /\ to_visit = << >>
    /\ crw_pc' = "done"
    /\ UNCHANGED <<crawler, to_visit, visited, crw_fetches, outsideCrawler>>

NextCrawler ==
    \/ \E c \in Crawlers : CrawlStart(c)
    \/ Revisit
    \/ Visit
    \/ CrawlDone

Init ==
    /\ GovInit /\ ThrInit /\ ReqInit /\ PagInit /\ MigInit /\ CliInit /\ DslInit /\ EngInit
    /\ CrwInit

Spec == Init /\ [][Next]_vars

SpecGovernor == Init /\ [][NextGovernor]_vars

SpecThreads == Init /\ [][NextThreads]_vars

SpecTransport == Init /\ [][NextTransport]_vars

SpecPaginator == Init /\ [][NextPaginator]_vars

SpecRerun == Init /\ [][NextRerun]_vars

SpecClients == Init /\ [][NextClients]_vars

SpecDsl == Init /\ [][NextDsl]_vars

SpecEngine == Init /\ [][NextEngine]_vars

\* crawl() is one sequential loop: a step that can be taken is taken
SpecCrawler == Init /\ [][NextCrawler]_vars /\ WF_vars(NextCrawler)

\* --------------------------------------------------------------- claims
InWindow(hist, s) == {i \in DOMAIN hist : s <= hist[i] /\ hist[i] < s + Window}

\* C1: for any sequence of _rate_limit calls with any gaps, no rolling
\* window of 1 second [s, s + 1.0), whatever its start s, contains more than
\* 5 recorded admission timestamps.
RateBound ==
    \A s \in (0 - HistSpan) .. 0 : Cardinality(InWindow(admitted, s)) <= MaxRequests

\* the governor had to sleep, and the window is full again after it
RateBoundWitness ==
    /\ last_sleep > 0
    /\ Len(request_times) = MaxRequests
    /\ Cardinality(InWindow(admitted, 1 - Window)) = MaxRequests

\* every timestamp appended so far, as a set of positions of `admitted`
InWindowAbs(s) == {i \in DOMAIN admitted : s <= admitted[i] /\ admitted[i] < s + Window}

\* C2 (as claimed): with callers interleaving at any point of _rate_limit,
\* still no rolling 1-second window holds more than 5 recorded admissions.
ConcurrentRateBound ==
    \A s \in 0 .. clock : Cardinality(InWindowAbs(s)) <= MaxRequests

\* C2, second part as claimed: no recorded timestamp is lost. Whenever no call
\* is in progress, every admission younger than the window (seen from the
\* newest one) is still in request_times.
Quiet == \A th \in Threads : pc[th] = "idle"
Newest == IF admitted = << >> THEN 0 ELSE admitted[Len(admitted)]
CountOf(seq, t) == Cardinality({i \in DOMAIN seq : seq[i] = t})
NoTimestampLost ==
    Quiet => \A i \in DOMAIN admitted :
                 Newest - admitted[i] < Window
                     => CountOf(request_times, admitted[i]) >= CountOf(admitted, admitted[i])

\* C2, first part as claimed: window mutation is mutually exclusive
MutatingWindow(th) == pc[th] \in {"store", "store2", "append"}
WindowMutex ==
    \A a, b \in Threads : MutatingWindow(a) /\ MutatingWindow(b) => a = b

\* ---- transport client
EventKinds == [i \in DOMAIN events |-> events[i].ev]

\* the remote answered 429 and then 200, and the call has returned
RetryCase ==
    /\ rq_pc = "returned"
    /\ Len(responses) = 2
    /\ responses[1].status = 429
    /\ responses[2].status = 200

\* C7: when the remote answers 429 and then 200 to the same request,
\* _request returns the result of the 200 (its parsed body, {} for an empty
\* one), returns once, sent the same method/endpoint/kwargs both times, and
\* slept 2 seconds after the 429 response and before the second attempt.
Retry429 ==
    RetryCase =>
        /\ sent = <<rq_req, rq_req>>
        /\ IsJson(responses[2].text) => rq_result = ParseJson(responses[2].text)
        /\ responses[2].text = "" => rq_result = EmptyDict
        /\ EventKinds = <<"admit", "send", "response", "sleep",
                          "admit", "send", "response", "return">>
        /\ events[4].ticks = Backoff

Retry429Witness ==
    /\ RetryCase
    /\ rq_req.method = "POST"
    /\ HasKey(rq_result, "id")

\* C9: every HTTP attempt, retries included, is preceded by exactly one
\* _rate_limit call on the client: the admissions recorded equal the HTTP
\* attempts made (plus the one admitted and about to be sent), whatever the
\* attempts' outcomes.
AdmissionPerAttempt ==
    /\ request_count = attempts + (IF rq_pc = "send" THEN 1 ELSE 0)
    /\ \A i \in DOMAIN events :
           events[i].ev = "send" =>
               /\ i > 1
               /\ events[i - 1].ev = "admit"
               /\ i > 2 => events[i - 2].ev # "admit"

AdmissionPerAttemptWitness ==
    /\ rq_pc = "returned"
    /\ rq_depth = 3
    /\ rq_result = None
    /\ attempts > 3
    /\ request_count = attempts

FailedOutcome(o) == o = NetworkError \/ (IsHttpError(o.status) /\ o.status # 429)

\* C10: a response with a 4xx/5xx status other than 429, or a network error,
\* is not retried: it is the last attempt of the call (the only one when it
\* answers the first attempt), and the call returns None.
NoRetryOnFailure ==
    \A i \in DOMAIN responses :
        FailedOutcome(responses[i]) =>
            /\ i = Len(responses)
            /\ Len(sent) = i
            /\ rq_pc = "returned"
            /\ rq_result = None

NoRetryOnFailureWitness ==
    /\ rq_pc = "returned"
    /\ Len(sent) = 1
    /\ responses[1] = NetworkError
    /\ rq_result = None

\* a 2xx response with an empty body was the call's last response
EmptySuccess ==
    /\ rq_pc = "returned"
    /\ responses[Len(responses)].status \in 200 .. 299
    /\ responses[Len(responses)].text = ""

\* C11: a successful (2xx) response with an empty body makes _request return
\* the empty record {}, a value other than the failure value None.
EmptyBodyIsEmptyRecord ==
    EmptySuccess => rq_result = EmptyDict /\ rq_result # None

EmptyBodyIsEmptyRecordWitness ==
    /\ EmptySuccess
    /\ responses[Len(responses)] = NoContent
    /\ rq_result = EmptyDict

\* ---- paginator
\* C6: for a source of n records that honors limit/offset and never fails,
\* get_paginated with page size p issues exactly floor(n/p) + 1 requests, with
\* limit p and offsets 0, p, 2p, ..., and returns the n records in source
\* order, none duplicated or dropped.
PaginationComplete ==
    (pg_pc = "done" /\ faithful) =>
        /\ Len(page_requests) = (src_size \div limit) + 1
        /\ \A i \in DOMAIN page_requests :
               page_requests[i] = [limit |-> limit, offset |-> (i - 1) * limit]
        /\ all_data = SourceRecords(src_size)

\* 250 records fetched 100 at a time: 3 requests, all 250 returned
PaginationCompleteWitness ==
    /\ pg_pc = "done"
    /\ faithful
    /\ src_size = 250
    /\ limit = 100
    /\ Len(page_requests) = 3
    /\ Len(all_data) = 250

\* ------------------------------------------------------------------------
\* C3: the Identifier Map is write-once: an entry (kind, source id) ->
\* target id, once written, is never replaced by a different target id
\* during the run (a second record with the same source id does not
\* silently overwrite the first).
WriteOnce ==
    [][\A kind \in MapKinds : \A k \in DOMAIN id_map[kind] :
           k \in DOMAIN id_map'[kind] /\ id_map'[kind][k] = id_map[kind][k]]_vars

\* C4: a card that names a board or a column without an entry in the
\* Identifier Map is not sent to the target: the step issues no request,
\* adds exactly 1 to the cards' failed counter, leaves the migrated counter
\* and id_map['cards'] as they were, and the loop goes on with the next card
\* (or, after the last card, with the next stage).
Unmapped(card) ==
    \/ card.board_id \notin DOMAIN id_map["boards"]
    \/ card.column_id \notin DOMAIN id_map["columns"]
DependencySkip ==
    [][(mg_pc = "cards" /\ frame.item.id # Missing /\ Unmapped(frame.item)) =>
          /\ target_posts' = target_posts
          /\ last_request' = NoRequest2
          /\ stats'["cards"] = [stats["cards"] EXCEPT !.failed = @ + 1]
          /\ id_map'["cards"] = id_map["cards"]
          /\ ~raised'
          /\ IF frame.left > 1
             THEN mg_pc' = "cards" /\ frame'.left = frame.left - 1
             ELSE mg_pc' = "comments_loop"]_vars
DependencySkipWitness ==
    /\ mg_pc = "cards"
    /\ outcome = "skipped"
    /\ stats["cards"].failed = 1
    /\ id_map["boards"] # << >>
    /\ id_map["columns"] = << >>
    /\ target_posts = 2

\* C5: the creation requests of a run come in dependency order: those for
\* properties and tags before those for spaces, boards, columns and lanes,
\* those before the cards (with their tag links), the cards before comments
\* and checklists (with their items), and the card-to-card relations last.
Rank(endpoint) ==
    CASE endpoint \in {"/custom-properties", "/tags"} -> 1
      [] endpoint \in {"/spaces", "/boards", "/columns", "/lanes"} -> 2
      [] endpoint \in {"/cards", "/cards/{id}/tags"} -> 3
      [] endpoint \in {"/card-comments/add-comment", "/card-checklists",
                       "/card-checklist-items"} -> 4
      [] endpoint = "/cards/{id}/children" -> 5
DependencyOrder ==
    [][target_posts' # target_posts =>
          \A e \in kinds_sent : Rank(e) <= Rank(last_request'.endpoint)]_vars
DependencyOrderWitness ==
    /\ last_request.endpoint = "/cards/{id}/children"
    /\ \E a, b, c \in kinds_sent : Rank(a) = 1 /\ Rank(b) = 2 /\ Rank(c) = 3

\* C8: a record that is skipped, or whose creation call fails or returns no
\* id, does not abort the run: the step raises nothing and consumes that
\* record only; a stage is left only when every record it listed has been
\* visited, and then for the stage next in order, so the run ends after the
\* last stage.
StageOf(p) ==
    CASE p \in {"fetch_properties", "properties"} -> 1
      [] p \in {"fetch_tags", "tags"} -> 2
      [] p \in {"fetch_spaces", "spaces", "fetch_boards", "boards", "board_details",
                "columns", "lanes"} -> 3
      [] p \in {"fetch_cards", "cards", "card_tags"} -> 4
      [] p \in {"comments_loop", "fetch_comments", "comments"} -> 5
      [] p \in {"checklists_loop", "fetch_checklists", "checklists",
                "checklist_items"} -> 6
      [] p \in {"relations_loop", "fetch_children", "relations"} -> 7
      [] p = "done" -> 8
FailuresDoNotAbort ==
    [][/\ (faults' # faults \/ outcome' \in {"failed", "skipped", "unmapped"}) =>
              ~raised' /\ pending' = pending - 1
       /\ (~raised' /\ StageOf(mg_pc') # StageOf(mg_pc)) =>
              StageOf(mg_pc') = StageOf(mg_pc) + 1 /\ pending' = 0]_vars
FailuresDoNotAbortWitness ==
    /\ mg_pc = "done"
    /\ ~raised
    /\ faults = 1
    /\ fetched = 5
    /\ stats["cards"].failed = 1
    /\ \E k \in DOMAIN id_map["cards"] : id_map["cards"][k] = 105

\* the pages the call took from the responses it received, joined in order
RECURSIVE Joined(_)
Joined(pages) == IF pages = << >> THEN << >> ELSE Head(pages) \o Joined(Tail(pages))
PagesTaken == [i \in DOMAIN received |-> Normalize(received[i])]

\* C12: whatever the server answers, a further page request is issued only
\* after a page of at least `limit` records: every page but the last received
\* was that long, the loop goes on after such a page and stops after a page
\* that is empty or shorter; every page received, the short last one
\* included, is part of the result.
StopRule ==
    /\ Len(page_requests) = Len(received)
    /\ \A i \in DOMAIN received :
           i < Len(received) => Len(PagesTaken[i]) >= limit
    /\ (pg_pc = "done" /\ received # << >>) =>
           Len(PagesTaken[Len(received)]) < limit
    /\ (pg_pc = "loop" /\ received # << >>) =>
           Len(PagesTaken[Len(received)]) >= limit
    /\ all_data = Joined(PagesTaken)

\* two full pages were followed by a short, non-empty one, which is returned
StopRuleWitness ==
    /\ pg_pc = "done"
    /\ limit = 2
    /\ Len(received) = 3
    /\ Len(PagesTaken[3]) = 1
    /\ Len(all_data) = 5

\* C13: when the request for page k fails (self.get returns None), the call
\* stops there: no later page is requested, and what it returns is the pages
\* 0..k-1 joined in order (nothing when k = 0).
PartialOnFailure ==
    \A i \in DOMAIN received :
        received[i] = None =>
            /\ i = Len(received)
            /\ Len(page_requests) = i
            /\ pg_pc = "done"
            /\ all_data = Joined(SubSeq(PagesTaken, 1, i - 1))

\* the third page request failed; the two pages before it are returned
PartialOnFailureWitness ==
    /\ pg_pc = "done"
    /\ Len(received) = 3
    /\ received[3] = None
    /\ limit = 2
    /\ Len(all_data) = 4

\* C14: a response that is a sequence is the page; of a mapping with a
\* 'data' field the page is that field's value; any other non-empty object
\* is a page of one record, itself; any other empty object is an empty page,
\* which ends the pagination.  The page is what the step adds to all_data.
PageFor(response) ==
    CASE response.type = "list" -> response.items
      [] response.type = "dict" /\ "data" \in DOMAIN response.fields ->
             response.fields["data"].items
      [] response.type = "dict" /\ "data" \notin DOMAIN response.fields
             /\ DOMAIN response.fields # {} -> <<response>>
      [] response.type = "dict" /\ DOMAIN response.fields = {} -> << >>
PageNormalization ==
    [][(Len(received') = Len(received) + 1
            /\ received'[Len(received')].type # "None") =>
          /\ all_data' = all_data \o PageFor(received'[Len(received')])
          /\ PageFor(received'[Len(received')]) = << >> => pg_pc' = "done"]_vars

\* a page under 'data' and a single object have both been taken
PageNormalizationWitness ==
    /\ Len(received) = 2
    /\ HasKey(received[1], "data")
    /\ received[2] = ErrorObject
    /\ limit = 1
    /\ all_data = <<Rec(1), ErrorObject>>

\* ---- ledger and dependents
\* the ledger entry that counts the records sent to an endpoint
Ledgers ==
    [e \in {"/custom-properties", "/tags", "/spaces", "/boards", "/cards",
            "/card-comments/add-comment", "/card-checklists"} |->
        CASE e = "/custom-properties" -> "custom_properties"
          [] e = "/tags" -> "tags"
          [] e = "/spaces" -> "spaces"
          [] e = "/boards" -> "boards"
          [] e = "/cards" -> "cards"
          [] e = "/card-comments/add-comment" -> "comments"
          [] e = "/card-checklists" -> "checklists"]
\* the step sent a record of one of the kinds in `kinds` to the target; the
\* call yielded an identifier exactly if `faults` stayed as it was
Sent(kinds) ==
    /\ target_posts' # target_posts
    /\ last_request'.endpoint \in DOMAIN Ledgers
    /\ Ledgers[last_request'.endpoint] \in kinds
Accounted ==
    LET k == Ledgers[last_request'.endpoint]
    IN  stats'[k] = IF faults' = faults
                    THEN [stats[k] EXCEPT !.migrated = @ + 1]
                    ELSE [stats[k] EXCEPT !.failed = @ + 1]

\* C15: every record sent to the target, of every kind with a ledger entry,
\* adds exactly 1 to exactly one of the kind's migrated and failed counters:
\* to migrated exactly when the call returned an identifier, to failed when
\* it failed or returned none.
LedgerAccounting == [][Sent(LedgerKinds) => Accounted]_vars

\* the same, the comments left out
LedgerAccountingKeyed == [][Sent(LedgerKinds \ {"comments"}) => Accounted]_vars

Values(map) == {map[k] : k \in DOMAIN map}

\* C16: dependents of a failed or skipped entity are never sent.  A creation
\* that fails, and a card that is skipped, leave the Identifier Map as it was
\* and are not followed by the migration of their children; and every request
\* for a dependent names parents that stand in the Identifier Map: a board
\* its space, a column or lane its board, a card its board and column, a tag
\* link, comment or checklist its card, a relation both its cards, a
\* checklist item the checklist just created.
ChildSteps == {"fetch_boards", "board_details", "columns", "lanes", "card_tags",
               "checklist_items"}
NoOrphans ==
    [][/\ target_posts' # target_posts =>
              LET r == last_request'
              IN  /\ r.endpoint = "/boards" => r.parent \in Values(id_map["spaces"])
                  /\ r.endpoint \in {"/columns", "/lanes"} =>
                         r.parent \in Values(id_map["boards"])
                  /\ r.endpoint = "/cards" =>
                         /\ r.parent \in Values(id_map["boards"])
                         /\ r.column_id \in Values(id_map["columns"])
                  /\ r.endpoint \in {"/cards/{id}/tags", "/card-comments/add-comment",
                                     "/card-checklists"} =>
                         r.parent \in Values(id_map["cards"])
                  /\ r.endpoint = "/cards/{id}/children" =>
                         /\ r.parent \in Values(id_map["cards"])
                         /\ r.ref \in Values(id_map["cards"])
                  /\ r.endpoint = "/card-checklist-items" =>
                         /\ last_request.endpoint \in {"/card-checklists",
                                                       "/card-checklist-items"}
                         /\ r.parent > 100
       /\ (Sent({"spaces", "boards", "cards", "checklists"}) /\ faults' # faults) =>
              id_map' = id_map /\ mg_pc' \notin ChildSteps
       /\ (mg_pc = "cards" /\ outcome' = "skipped") =>
              id_map' = id_map /\ mg_pc' \notin ChildSteps]_vars

\* a board's creation failed and a card was then skipped: nothing but the
\* space and the board was ever sent
NoOrphansWitness ==
    /\ outcome = "skipped"
    /\ stats["boards"].failed = 1
    /\ stats["spaces"].migrated = 1
    /\ id_map["boards"] = << >>
    /\ kinds_sent = {"/spaces", "/boards"}

\* the target id created last for a kind (the target's ids grow)
Latest(kind) == CHOOSE v \in Values(id_map[kind]) : \A w \in Values(id_map[kind]) : w <= v

\* C17: children are migrated right after their parent and before the next
\* parent, with the parent's fresh target id: a board request names the
\* space created last, a column or lane request the board created last, and
\* a checklist item follows its checklist's creation or another item of it,
\* with the id that creation returned.
NestedAfterParent ==
    [][target_posts' # target_posts =>
          LET r == last_request'
          IN  /\ r.endpoint = "/boards" =>
                     id_map["spaces"] # << >> /\ r.parent = Latest("spaces")
              /\ r.endpoint \in {"/columns", "/lanes"} =>
                     id_map["boards"] # << >> /\ r.parent = Latest("boards")
              /\ r.endpoint = "/card-checklist-items" =>
                     \/ /\ last_request.endpoint = "/card-checklists"
                        /\ outcome = "created"
                        /\ r.parent = target_posts + 100
                     \/ /\ last_request.endpoint = "/card-checklist-items"
                        /\ r.parent = last_request.parent]_vars

\* a checklist item was sent in a run that created a second space's board
NestedAfterParentWitness ==
    /\ last_request.endpoint = "/card-checklist-items"
    /\ "/columns" \in kinds_sent
    /\ stats["spaces"].migrated = 2
    /\ stats["boards"].migrated = 1

\* C18: an archived space is skipped entirely: its turn of the loop sends no
\* request, does not fetch its boards, and leaves the Identifier Map and the
\* counters as they were.
ArchivedSkipped ==
    [][(mg_pc = "spaces" /\ frame.item.archived) =>
          /\ target_posts' = target_posts
          /\ last_request' = NoRequest2
          /\ fetched' = fetched
          /\ mg_pc' \in {"spaces", "fetch_cards"}
          /\ id_map' = id_map
          /\ stats' = stats
          /\ ~raised']_vars

\* one space was created with a board and the other, archived, was skipped
ArchivedSkippedWitness ==
    /\ outcome = "archived"
    /\ stats["spaces"].total = 2
    /\ stats["spaces"].migrated = 1
    /\ DOMAIN id_map["spaces"] = {1}
    /\ stats["boards"].migrated = 1
    /\ mg_pc = "fetch_cards"

\* C19: after the spaces stage, stats['spaces']['total'] is the number of
\* source spaces that are not archived.
ArchivedExcluded ==
    (StageOf(mg_pc) > 3 /\ ~raised) => stats["spaces"].total = active_spaces

\* C20: a kind's total is set once, before any of its migrated and failed
\* increments, and migrated and failed never decrease.
Untouched == [total |-> 0, migrated |-> 0, failed |-> 0]
TotalSetOnce ==
    [][\A k \in LedgerKinds :
          /\ stats'[k].total # stats[k].total => stats[k] = Untouched
          /\ stats'[k].migrated >= stats[k].migrated
          /\ stats'[k].failed >= stats[k].failed]_vars

\* C20, amended: migrated and failed never decrease, and change only in
\* steps that leave the total alone.  The total of custom_properties, tags,
\* spaces and cards is set once, by the kind's listing, before any increment.
\* The total of boards, comments and checklists grows by the length of each
\* parent's listing (one per migrated space or card), at the step that
\* fetches it, between the increments for earlier parents' children.
Nested == {"boards", "comments", "checklists"}
TotalsPerListing ==
    [][\A k \in {kind \in LedgerKinds : stats'[kind] # stats[kind]} :
          /\ stats'[k].migrated >= stats[k].migrated
          /\ stats'[k].failed >= stats[k].failed
          /\ stats'[k].total # stats[k].total =>
                 /\ stats'[k].migrated = stats[k].migrated
                 /\ stats'[k].failed = stats[k].failed
                 /\ target_posts' = target_posts
                 /\ stats'[k].total = stats[k].total + (fetched' - fetched)
                 /\ k \notin Nested => stats[k] = Untouched
                 /\ k \in Nested => stats[k].migrated + stats[k].failed = stats[k].total
          /\ stats'[k].migrated + stats'[k].failed <= stats'[k].total]_vars

\* the boards of a second space were added to the total after the first
\* space's board had been counted
TotalsPerListingWitness ==
    /\ mg_pc = "boards"
    /\ stats["boards"].total = 2
    /\ stats["boards"].migrated = 1
    /\ stats["spaces"].migrated = 2

\* C26: every time _rate_limit returns, the window holds at most 5
\* timestamps, each of them less than 1 second older than the one just
\* appended (which is the last of the window), in non-decreasing order.
\* (The clock is taken not to run backwards between two readings.)
WindowInvariant ==
    /\ Len(request_times) <= MaxRequests
    /\ request_count > 0 =>
          /\ request_times # << >>
          /\ request_times[Len(request_times)] = 0
    /\ \A i \in DOMAIN request_times : 0 - request_times[i] < Window
    /\ \A i, j \in DOMAIN request_times :
          i <= j => request_times[i] <= request_times[j]

\* a call that found the window full, slept, and returned with a full window
\* whose oldest entry is as old as an entry can be
WindowInvariantWitness ==
    /\ last_sleep > 0
    /\ Len(request_times) = MaxRequests
    /\ request_times[1] = 0 - (Window - 1)

\* C29: _rate_limit always returns: every call ends, after one sleep of at
\* most 1.05 s or none, with its append and its count.  It does not sleep
\* when fewer than 5 admissions lie within the trailing second (the new
\* admission is then recorded at the moment of the call); when 5 do, the one
\* sleep it asks for is (1 second minus the age of the oldest retained
\* entry) plus 50 ms, so that entry is no longer in the window at the append
\* and the new admission is recorded at least 1.05 s after it (the history
\* of the last 1.05 s holds that admission and at most the 4 after the
\* oldest).
Recent(gap) == {i \in DOMAIN request_times : gap - request_times[i] < Window}
Oldest(gap) == CHOOSE i \in Recent(gap) : \A j \in Recent(gap) : i <= j
Blocking(gap) ==
    IF Cardinality(Recent(gap)) < MaxRequests
    THEN /\ last_sleep' = 0
         /\ Len(request_times') = Cardinality(Recent(gap)) + 1
         /\ (admitted # << >> /\ gap < HistSpan) =>
               /\ Len(admitted') >= 2
               /\ admitted'[Len(admitted') - 1] = 0 - gap
    ELSE /\ last_sleep' = (Window - (gap - request_times[Oldest(gap)])) + Margin
         /\ last_sleep' > 0
         /\ Len(request_times') <= Cardinality(Recent(gap))
         /\ Len(admitted') <= MaxRequests
\* the time between the two latest admissions, when the history still shows
\* the earlier one, is the gap plus the sleep plus the oversleep
Elapsed(gap, over) ==
    Len(admitted') >= 2 =>
        0 - admitted'[Len(admitted') - 1] =
            gap + (IF last_sleep' > 0 THEN last_sleep' + over ELSE 0)
\* the step is a call entered `gap` ticks after the latest reading, whose
\* sleep, if any, returned `over` ticks late
CallWith(gap, over) == Elapsed(gap, over) /\ RateLimit(gap, over)
GovernorBlocking ==
    [][/\ request_times' # << >>
       /\ request_times'[Len(request_times')] = 0
       /\ request_count < CountCap => request_count' = request_count + 1
       /\ last_sleep' <= Window + Margin
       /\ \A gap \in Gaps :
              (\E over \in 0 .. MaxOversleep : CallWith(gap, over)) => Blocking(gap)]_vars

\* a call that found 5 admissions in the trailing second, the oldest of them
\* not at its start, and slept for less than the whole window
GovernorBlockingWitness ==
    /\ last_sleep > Margin
    /\ last_sleep < Window
    /\ request_count > MaxRequests

\* C28 (as claimed): _request returns only when the remote has given a
\* response other than a 429, or the transport an error: the last thing a
\* returned call got from requests.request is such an outcome, so a remote
\* that answers 429 to every attempt never sees the call return.
ReturnsOnlyOnAnswer ==
    rq_pc = "returned" =>
        /\ responses # << >>
        /\ responses[Len(responses)] \in Outcomes
        /\ ~ Is429(responses[Len(responses)])

\* C28, what holds: while the stack has room, k 429 responses followed by
\* another outcome make k + 1 attempts and a return; and a call that got
\* nothing but 429 responses returns None from its nested call number
\* MaxDepth, whose HTTP call raises RecursionError.
RetriesUpToRecursionLimit ==
    /\ \A i \in DOMAIN responses :
           /\ i < Len(responses) => Is429(responses[i])
           /\ Is429(responses[i]) => i < MaxDepth
    /\ Len(sent) = Len(responses)
    /\ rq_depth <= MaxDepth
    /\ rq_pc = "returned" =>
           /\ ~ Is429(responses[Len(responses)])
           /\ rq_depth = Len(responses)
           /\ responses[Len(responses)] = RecursionError <=> rq_depth = MaxDepth
           /\ responses[Len(responses)] = RecursionError => rq_result = None

\* a call answered 429 at every attempt has returned
RetriesUpToRecursionLimitWitness ==
    /\ rq_pc = "returned"
    /\ Len(responses) = MaxDepth
    /\ \A i \in 1 .. (MaxDepth - 1) : Is429(responses[i])
    /\ rq_result = None

\* C30: every card request sent to the target carries as board_id and
\* column_id the Identifier Map's values for the source card's board and
\* column, as lane_id the map's value for the card's lane or null, and
\* property keys that are the map's values for properties of the card; none
\* of these fields holds an identifier of the source.
IsMapped(kind, old, new) == old \in DOMAIN id_map[kind] /\ new = id_map[kind][old]
Rewritten(card, request) ==
    /\ IsMapped("boards", card.board_id, request.parent)
    /\ IsMapped("columns", card.column_id, request.column_id)
    /\ request.lane_id = Missing \/ IsMapped("lanes", card.lane_id, request.lane_id)
    /\ \A p \in request.properties :
           \E q \in card.properties : IsMapped("properties", q, p)
    /\ ({request.parent, request.column_id, request.lane_id} \cup request.properties)
           \cap Ids = {}
ForeignKeysRewritten ==
    [][(mg_pc = "cards" /\ target_posts' # target_posts) =>
           /\ last_request'.endpoint = "/cards"
           /\ last_request'.src = frame.item.id
           /\ Rewritten(frame.item, last_request')]_vars

\* a card with a lane and a property value was sent, both rewritten
ForeignKeysRewrittenWitness ==
    /\ last_request.endpoint = "/cards"
    /\ IsMapped("lanes", 1, last_request.lane_id)
    /\ \E p \in last_request.properties : IsMapped("properties", 1, p)
    /\ IsMapped("boards", 1, last_request.parent)

\* C23 (as claimed): every failure is counted in the ledger.  A step in which
\* a target creation call fails or returns no identifier (of whatever kind:
\* columns, lanes, card-tag links, checklist items and card relations
\* included), or in which a record is skipped because a dependency has no
\* mapping, adds one to a failed counter of the ledger.
FailureStep ==
    \/ faults' > faults
    \/ outcome' \in {"skipped", "unmapped"}
AllFailuresCounted ==
    [][FailureStep =>
           \E kind \in LedgerKinds : stats'[kind].failed = stats[kind].failed + 1]_vars

\* C24 (as claimed): an absent Identifier Map lookup is never turned into
\* null in an outgoing request.  In every card request sent, each foreign
\* key the source card sets (board, column, lane) is sent with a value: a
\* card whose key has no mapping is skipped, not sent with null.
AbsenceNeverNull ==
    [][(mg_pc = "cards" /\ target_posts' # target_posts) =>
           /\ frame.item.board_id # Missing => last_request'.parent # Missing
           /\ frame.item.column_id # Missing => last_request'.column_id # Missing
           /\ frame.item.lane_id # Missing => last_request'.lane_id # Missing]_vars

\* C22 (as claimed): a setup error on the run's very first call aborts the
\* run: the step that follows the failed call is neither a fetch from the
\* source nor a creation request to the target.
FetchStages ==
    {"fetch_properties", "fetch_tags", "fetch_spaces", "fetch_boards", "board_details",
     "fetch_cards", "fetch_comments", "fetch_checklists", "fetch_children"}
AbortOnSetupError ==
    [][outcome = "setup_error" =>
           /\ mg_pc \notin FetchStages
           /\ target_posts' = target_posts]_vars

\* C21: the pipeline is not idempotent.  A second run against the target the
\* first run filled starts from an empty Identifier Map, and makes no
\* existence check: every record it visits whose source id the first run
\* migrated (and that is not archived, and whose board and column this run
\* has mapped, for a card) is sent to the target as a creation request again;
\* so every entry of the second run's map names a target entity other than
\* the one the first run created for the same source id: a duplicate.
MigratedBefore(kind, rec) == first_run.ran /\ rec.id \in DOMAIN first_run.id_map[kind]
SentAgain(stage, kind, rec, endpoint) ==
    (mg_pc = stage /\ MigratedBefore(kind, rec)) =>
        /\ target_posts' = target_posts + 1
        /\ last_request'.endpoint = endpoint
        /\ last_request'.src = rec.id
Duplicated(map) ==
    \A kind \in MapKinds :
        \A old \in DOMAIN map[kind] \cap DOMAIN first_run.id_map[kind] :
            map[kind][old] # first_run.id_map[kind][old]
NotIdempotent ==
    [][/\ (first_run'.ran /\ ~ first_run.ran) => id_map' = NewIdMap
       /\ SentAgain("properties", "properties", frame.item, "/custom-properties")
       /\ SentAgain("tags", "tags", frame.item, "/tags")
       /\ ~ frame.item.archived => SentAgain("spaces", "spaces", frame.item, "/spaces")
       /\ SentAgain("boards", "boards", frame.sub_item, "/boards")
       /\ SentAgain("columns", "columns", frame.leaf_item, "/columns")
       /\ SentAgain("lanes", "lanes", frame.leaf_item, "/lanes")
       /\ (/\ frame.item.board_id \in DOMAIN id_map["boards"]
           /\ frame.item.column_id \in DOMAIN id_map["columns"]) =>
              SentAgain("cards", "cards", frame.item, "/cards")
       /\ first_run'.ran => Duplicated(id_map')]_vars

\* the second run has ended; the target holds two spaces and two boards for
\* the source's space 1 and board 1
NotIdempotentWitness ==
    /\ first_run.ran
    /\ mg_pc = "done"
    /\ \A kind \in {"spaces", "boards"} :
           /\ 1 \in DOMAIN id_map[kind] \cap DOMAIN first_run.id_map[kind]
           /\ id_map[kind][1] # first_run.id_map[kind][1]

\* C25: source and target have independent governors: a request through the
\* source client leaves the target client's request window and request count
\* unchanged, and a request through the target client leaves the source
\* client's unchanged (a step changes the state of one client only, adds one
\* to that client's count and a timestamp to that client's window).
ChangedClients == {c \in Clients : clients'[c] # clients[c]}
IndependentGovernors ==
    [][/\ Cardinality(ChangedClients) = 1
       /\ \A c \in ChangedClients :
              /\ clients'[c].request_count = clients[c].request_count + 1
              /\ clients'[c].request_times # << >>]_vars

\* both clients have made requests, the source more than the target, and
\* their windows differ
IndependentGovernorsWitness ==
    /\ clients["source"].request_count = MaxClientCalls
    /\ clients["target"].request_count = 1
    /\ Len(clients["source"].request_times) > Len(clients["target"].request_times)

\* C27: DSL dry-run applies no changes.  When the engine was started with
\* the command dry-run (or validate), so that dry_run is set, no call of
\* KaitenAPI.request, whatever its method and endpoint, issues an HTTP
\* request or touches the rate window, and each returns the mock record
\* with id 999.
DryRunSendsNothing ==
    (dsl_pc = "ready" /\ dsl_command \in {"dry-run", "validate"}) =>
        /\ dsl_dry_run
        /\ dsl_http = 0
        /\ dsl_times = << >>
        /\ dsl_calls > 0 =>
              /\ HasKey(dsl_result, "id")
              /\ dsl_result.fields["id"] = 999
              /\ dsl_result = Mock

DryRunSendsNothingWitness ==
    /\ dsl_command = "dry-run"
    /\ dsl_calls = MaxDslCalls
    /\ dsl_result.type = "dict"
    /\ dsl_http = 0

\* C31: a parent/child relation is sent to the target exactly for a child that
\* has an entry in the id map of the cards, under a parent that has one; the
\* request carries the target ids of both; children are listed only for
\* source cards that have an entry; no other step sends a relation.
Relations == "/cards/{id}/children"
RelationSent == target_posts' = target_posts + 1 /\ last_request'.endpoint = Relations
RelationsOfMappedCards ==
    [][/\ mg_pc \in {"fetch_children", "relations"} => frame.old_id \in DOMAIN id_map["cards"]
       /\ mg_pc = "relations" =>
              /\ RelationSent <=> frame.sub_item.id \in DOMAIN id_map["cards"]
              /\ ~ RelationSent => target_posts' = target_posts
              /\ RelationSent =>
                     /\ last_request'.parent = id_map["cards"][frame.old_id]
                     /\ last_request'.ref = id_map["cards"][frame.sub_item.id]
                     /\ last_request'.src = frame.sub_item.id
       /\ RelationSent => mg_pc = "relations"]_vars

\* a relation between two different migrated cards was sent
RelationsOfMappedCardsWitness ==
    /\ last_request.endpoint = Relations
    /\ last_request.parent # last_request.ref
    /\ {last_request.parent, last_request.ref} \subseteq {id_map["cards"][k] : k \in DOMAIN id_map["cards"]}

\* C32: the engine's requests come in the order custom properties, tags,
\* card types, spaces (each followed by its boards, each board by its columns
\* and then its lanes), automations, cards; and only for sections the
\* configuration has.  (A configuration is a dict: the engine looks its keys
\* up by name and never reads their order.)
SectionRank(endpoint) ==
    CASE endpoint = "/custom-properties" -> 1
      [] endpoint = "/tags" -> 2
      [] endpoint = "/card-types" -> 3
      [] endpoint \in {"/spaces", "/boards", "/columns", "/lanes"} -> 4
      [] endpoint = "/automations" -> 5
      [] endpoint = "/cards" -> 6
SectionOf(endpoint) ==
    CASE endpoint = "/custom-properties" -> "custom_properties"
      [] endpoint = "/tags" -> "tags"
      [] endpoint = "/card-types" -> "card_types"
      [] endpoint \in {"/spaces", "/boards", "/columns", "/lanes"} -> "spaces"
      [] endpoint = "/automations" -> "automations"
      [] endpoint = "/cards" -> "cards"
Before(i, endpoints) == \E k \in 1 .. i - 1 : eng_sent[k] \in endpoints
FixedSectionOrder ==
    /\ \A i, j \in DOMAIN eng_sent :
           i < j => SectionRank(eng_sent[i]) <= SectionRank(eng_sent[j])
    /\ \A i \in DOMAIN eng_sent :
           /\ InConfig(eng_config, SectionOf(eng_sent[i]))
           /\ eng_sent[i] = "/boards" => Before(i, {"/spaces"})
           /\ eng_sent[i] \in {"/columns", "/lanes"} => Before(i, {"/boards"})
    /\ \A i, j \in DOMAIN eng_sent :
           i < j /\ eng_sent[i] = "/lanes" /\ eng_sent[j] = "/columns" =>
               \E k \in i + 1 .. j - 1 : eng_sent[k] = "/boards"

\* a configuration with spaces and cards alone was applied to the end: a
\* space, its board, the board's column, then a card
FixedSectionOrderWitness ==
    /\ eng_pc = "returned"
    /\ eng_result = "True"
    /\ eng_config.keys = {"cards", "spaces"}
    /\ eng_sent = <<"/spaces", "/boards", "/columns", "/cards">>

\* C33: a configuration without 'version' or 'kaiten', or with a version
\* other than 1.0, makes execute return False with no call of the API and
\* created_ids as constructed; True is returned only for a configuration that
\* has both and version 1.0, and only when no step raised.
WellFormed(config) ==
    /\ config.kaiten
    /\ config.version \in {Version("str", "1.0"), Version("float", "1.0")}
ValidationGates ==
    /\ eng_pc # "main" /\ ~ WellFormed(eng_config) =>
           /\ eng_pc = "returned"
           /\ eng_result = "False"
           /\ eng_sent = << >>
           /\ created_ids = NewCreatedIds
    /\ eng_result = "True" => WellFormed(eng_config) /\ eng_last.outcome # "raised"
    /\ eng_last.outcome = "raised" => eng_pc = "returned" /\ eng_result = "False"

\* `apply` of a configuration of version 2.0 returned False
ValidationGatesWitness ==
    /\ eng_pc = "returned"
    /\ ~ eng_dry_run
    /\ eng_config.kaiten
    /\ eng_config.version = Version("float", "2.0")
    /\ eng_result = "False"

\* C34: a card whose board, or whose column on that board, has no entry in
\* created_ids is not sent, and neither is an automation whose space has
\* none; the loop goes on to the next item.
Unresolved(item) ==
    \/ item.board \notin DOMAIN created_ids["boards"]
    \/ Key(item.board, item.column) \notin DOMAIN created_ids["columns"]
DslDependencySkip ==
    [][/\ InLoop("cards") /\ eng_last'.item.board # Absent /\ Unresolved(eng_last'.item) =>
              /\ eng_sent' = eng_sent
              /\ eng_last'.outcome = "skipped"
              /\ eng_pc' = "steps"
              /\ eng_stack' = Unwind(Taken(eng_stack))
       /\ InLoop("automations") /\ eng_last'.item.space # Absent
              /\ eng_last'.item.space \notin DOMAIN created_ids["spaces"] =>
              /\ eng_sent' = eng_sent
              /\ eng_last'.outcome = "skipped"
              /\ eng_pc' = "steps"
              /\ eng_stack' = Unwind(Taken(eng_stack))]_vars

\* a card naming a board that was created and a column that was not has been
\* passed over, with another card to come
DslDependencySkipWitness ==
    /\ eng_last.kind = "cards"
    /\ eng_last.outcome = "skipped"
    /\ eng_last.item.board \in DOMAIN created_ids["boards"]
    /\ InLoop("cards")

\* C35: no key of created_ids is built from two different tuples of names
KeysNeverShared ==
    \A o1, o2 \in eng_owners :
        o1.kind = o2.kind /\ o1.key = o2.key => o1.path = o2.path

\* C36: for every kind, migrated + failed never exceeds total.  In a run that
\* has not raised, once the stage of custom_properties, tags, cards, comments
\* or checklists is over, the kind's migrated + failed equals its total, and
\* once the stage of the spaces is over, total - migrated - failed of the
\* spaces is the number of archived spaces the listing held.  The counters of
\* a kind whose stage is over do not change any more.
KindStage(kind) ==
    CASE kind = "custom_properties" -> 1
      [] kind = "tags" -> 2
      [] kind \in {"spaces", "boards"} -> 3
      [] kind = "cards" -> 4
      [] kind = "comments" -> 5
      [] kind = "checklists" -> 6
StageOver(kind) == StageOf(mg_pc) > KindStage(kind)
Handled(kind) == stats[kind].migrated + stats[kind].failed
ArchivedSpaces == stats["spaces"].total - active_spaces
Conserved ==
    /\ \A kind \in LedgerKinds : Handled(kind) <= stats[kind].total
    /\ ~ raised =>
           /\ \A kind \in {"custom_properties", "tags", "cards", "comments", "checklists"} :
                  StageOver(kind) => Handled(kind) = stats[kind].total
           /\ StageOver("spaces") => stats["spaces"].total - Handled("spaces") = ArchivedSpaces
LedgerConservation ==
    [][/\ Conserved'
       /\ \A kind \in LedgerKinds : StageOver(kind) => stats'[kind] = stats[kind]]_vars

\* a run came to its end with an archived space among two and a card that
\* was skipped or failed
LedgerConservationWitness ==
    /\ mg_pc = "done"
    /\ ~ raised
    /\ stats["spaces"].total = 2
    /\ ArchivedSpaces = 1
    /\ stats["spaces"].migrated = 1
    /\ stats["cards"].total = 1
    /\ stats["cards"].failed = 1

\* C37: for properties, tags, spaces, boards and cards, the id map of the
\* kind changes only in a step that adds 1 to the kind's migrated counter, by
\* the entry from the source id of the record sent to the id the target
\* returned, and every such step writes one.  So a kind never has more
\* entries than its migrated counter tells, and falls one further behind it
\* exactly when the source id written was in the map already.
LedgerOf(kind) == IF kind = "properties" THEN "custom_properties" ELSE kind
Entries(map) == Cardinality(DOMAIN map)
MapAgreesWithLedger ==
    [][\A kind \in {"properties", "tags", "spaces", "boards", "cards"} :
          LET ledger == LedgerOf(kind)
              src == last_request'.src
          IN  /\ (id_map'[kind] # id_map[kind]) <=>
                     (stats'[ledger].migrated # stats[ledger].migrated)
              /\ id_map'[kind] # id_map[kind] =>
                     /\ stats'[ledger].migrated = stats[ledger].migrated + 1
                     /\ target_posts' = target_posts + 1
                     /\ id_map'[kind] = Store(id_map[kind], src, Created.fields["id"])
                     /\ stats'[ledger].migrated - Entries(id_map'[kind]) =
                            stats[ledger].migrated - Entries(id_map[kind])
                                + (IF src \in DOMAIN id_map[kind] THEN 1 ELSE 0)
              /\ Entries(id_map'[kind]) <= stats'[ledger].migrated]_vars

\* two spaces with the same id and two cards with different ids were migrated
MapAgreesWithLedgerWitness ==
    /\ stats["spaces"].migrated = 2
    /\ Entries(id_map["spaces"]) = 1
    /\ stats["cards"].migrated = 2
    /\ Entries(id_map["cards"]) = 2

\* C38: the step in which a stage raises takes migrate_all past its `try`,
\* to the statements that print the statistics, with the id map and the
\* counters as they were and nothing sent; whatever the stage and the later
\* stages had left is never run.
RaiseIsCaught ==
    [][/\ ~ raised
       /\ raised' =>
              /\ mg_pc' = "done"
              /\ id_map' = id_map
              /\ stats' = stats
              /\ target_posts' = target_posts
              /\ pending' = pending]_vars

\* a space without 'id' ended a run that had migrated one space: the record
\* was left unvisited and no card was ever listed
RaiseIsCaughtWitness ==
    /\ raised
    /\ mg_pc = "done"
    /\ stats["spaces"].migrated = 1
    /\ Entries(id_map["spaces"]) = 1
    /\ stats["spaces"].total = 2
    /\ stats["cards"].total = 0
    /\ pending >= 1

\* C39: a crawler never fetches a URL twice, fetches only URLs without
\* fragment, on the base's host and without a binary extension, never holds
\* a URL twice in to_visit, and its loop comes to an end, whether fetches
\* fail or not.  (An href that urljoin cannot parse ends the loop too, with
\* an exception that nothing catches.)
Distinct(seq) == \A i, j \in DOMAIN seq : i # j => seq[i] # seq[j]
CrawlSafe ==
    /\ Distinct(crw_fetches)
    /\ Distinct(to_visit)
    /\ \A i \in DOMAIN crw_fetches :
           /\ crw_fetches[i].frag = ""
           /\ crw_fetches[i].host = BaseUrl(crawler).host
           /\ Ext(crw_fetches[i].path) \notin BadExt(crawler)
CrawlOnceAndStop == []CrawlSafe /\ <>(crw_pc \in {"done", "crashed"})

\* the crawl of the docs ended after three fetches, of the start page, of /a
\* and of /app.js
CrawlOnceAndStopWitness ==
    /\ crw_pc = "done"
    /\ crawler = "docs"
    /\ Len(crw_fetches) = 3
    /\ visited = {BaseUrl("docs"), Url(BaseUrl("docs").host, "/a", ""),
                  Url(BaseUrl("docs").host, "/app.js", "")}
====
